---- MODULE Spec2Model ----
(***************************************************************************)
(* flowpipeline: the pipeline runtime (Start / AutoDrain / Close and the   *)
(* shared barrier), the single-task transformer segments protomap and      *)
(* addrstrings, the reverse-DNS segment resolveips, the goflow collector   *)
(* segment and the Lumberjack exporter segment.                            *)
(*                                                                         *)
(* Channels.  An unbuffered Go channel c is modelled by                    *)
(*   slot[c]   the element of the sender parked in `c <- m` (NoMsg: none), *)
(*   closes[c] how many times close(c) has been executed.                  *)
(* A sender executes `c <- m` by parking its element in slot[c]; the send  *)
(* has completed when a receiver has taken the element.  A task whose next *)
(* statement follows a send is therefore guarded by slot[c] = NoMsg.       *)
(* Channel 0 is the pipeline's ingress, channel i is the out of segment i  *)
(* and the in of segment i+1.                                              *)
(***************************************************************************)
EXTENDS Integers, Sequences, FiniteSets, TLC

VARIABLES
    conf,        \* conf[i]: the instance New(config) returned for the i-th segment
    feed,        \* records the ingress producer has still to send
    fed,         \* records the ingress producer has handed to the ingress channel
    slot,        \* slot[c]: element of the sender parked on channel c
    closes,      \* closes[c]: number of close(c) executed
    pc,          \* pc[i]: control point of the i-th segment's Run
    hand,        \* hand[i]: record Run i holds between two statements
    rcvd,        \* rcvd[i]: records Run i has received from its in, in order
    wg,          \* the pipeline's shared barrier (sync.WaitGroup counter)
    mainpc,      \* control point of main()
    proc,        \* "running", "exited" (main returned), "panicked", or the
                 \* message of the log.Fatal that ended the process
    seen         \* records the terminal drain has read from the last out

pipeVars == <<conf, feed, fed, slot, closes, pc, hand, rcvd, wg, mainpc, proc, seen>>

VARIABLES
    queue,       \* contents of the buffered channel segment.LumberjackOut
    queueClosed, \* close(segment.LumberjackOut) has been executed
    enq,         \* ids of the records Run has sent on LumberjackOut, in order
    writerWG,    \* Lumberjack.Run's local sync.WaitGroup counter
    wpc,         \* wpc[w]: control point of worker task w
    buf,         \* buf[w]: flowInterface[:idx] of worker w
    timerSet,    \* timerSet[w]: the worker's local flag
    tm,          \* tm[w]: the worker's timer: "stopped", "armed", "fired" (a
                 \* value is in timer.C), "expired" (the value was received)
                 \* or "stale" (armed, with the value of an earlier expiry in
                 \* timer.C)
    conn,        \* conn[w]: connection state of the worker's resilient client
    serverUp,    \* serverUp[s]: whether server s is reachable
    deq,         \* deq[w]: ids of the records worker w has dequeued, in order
    sendlog,     \* sendlog[w]: the batches worker w has handed to a send call
    delivered    \* delivered[w]: the batches of worker w the server has received

ljVars == <<queue, queueClosed, enq, writerWG, wpc, buf, timerSet, tm, conn,
            serverUp, deq, sendlog, delivered>>

\* resolveips: the ResolveQueue (futures by record id), each future's state
\* and flow, and the position of the task that forwards results
VARIABLES resQueue, future, fpc, fcur

resVars == <<resQueue, future, fpc, fcur>>

\* goflow: the listener tasks, the collector channel goflow_in (the flow of
\* a transport parked in its send, closes, whether Run has set its reference
\* to nil), how many flows the transports have sent, and the flows Run took
VARIABLES lst, gin, ginClosed, ginNil, gsent, collected

gfVars == <<lst, gin, ginClosed, ginNil, gsent, collected>>

\* the builder: the objects behind the pointers of the program (the registered
\* prototypes first, then what New allocates) and the calls of New so far
VARIABLES heap, built

regVars == <<heap, built>>

\* one ReceiverCallback of goflow: its fields DroppedPackets and CurrentTimer
\* (a timer or Nil), the timers of time.AfterFunc that have not run yet, and
\* per task of the receiver that calls Dropped its position in the call and
\* the counter value it has loaded; how many calls were made, how many
\* timers were made
VARIABLES DroppedPackets, CurrentTimer, pending, dpc, loaded, dropped, timers

rcbVars == <<DroppedPackets, CurrentTimer, pending, dpc, loaded, dropped, timers>>

\* the ECS mapping: the wall clock (ms) and the conversions made so far
VARIABLES now, converted

ecsVars == <<now, converted>>

\* the variables of the segments that are more than one task, and what no
\* task of a running pipeline touches
segVars == <<ljVars, resVars, gfVars, regVars, rcbVars, ecsVars>>

\* what no task of a Lumberjack segment touches
notLJ == <<resVars, gfVars, regVars, rcbVars, ecsVars>>

\* what no task of a resolveips segment touches
notRes == <<ljVars, gfVars, regVars, rcbVars, ecsVars>>

\* what no task of a goflow segment touches
notGoflow == <<ljVars, resVars, regVars, rcbVars, ecsVars>>

vars == <<pipeVars, ljVars, resVars, gfVars, regVars, rcbVars, ecsVars>>

-----------------------------------------------------------------------------
(* Bounds of the model *)

\* longest pipeline explored
MaxSegs == 3
\* longest input stream explored
NRec == 3
\* most calls of New explored
MaxBuilt == 2
\* tasks of a receiver that call Dropped, and most calls explored
NCallers == 2
MaxDropped == 4
\* latest time of the wall clock and most conversions explored
MaxNow == 2
MaxConverted == 2

-----------------------------------------------------------------------------
(* Flow records (pb.EnrichedFlow), restricted to the fields the modelled   *)
(* segments read or write.  A nil byte slice and an empty string are <<>>  *)
(* and "".                                                                 *)

NoMsg == [id |-> 0]

NilAddr == <<>>

SampleAddr == <<192, 168, 88, 142>>

SampleMac == 43981

\* pb.EnrichedFlow{...}: the i-th record of the input stream
InputRecord(i) ==
    [id |-> i,
     Proto |-> CASE i % 3 = 1 -> 6 [] i % 3 = 2 -> 68 [] OTHER -> 222,
     ProtoName |-> "",
     SrcAddr |-> IF i % 2 = 1 THEN SampleAddr ELSE NilAddr,
     DstAddr |-> SampleAddr,
     NextHop |-> NilAddr,
     SamplerAddress |-> IF i % 2 = 0 THEN SampleAddr ELSE NilAddr,
     SrcMac |-> IF i % 2 = 1 THEN SampleMac ELSE 0,
     DstMac |-> 0,
     SourceIP |-> "", DestinationIP |-> "", NextHopIP |-> "", SamplerIP |-> "",
     SourceMAC |-> "", DestinationMAC |-> "",
     SrcHostName |-> "", DstHostName |-> "", NextHopHostName |-> "",
     SamplerHostName |-> ""]

Stream(n) == [i \in 1..n |-> InputRecord(i)]

-----------------------------------------------------------------------------
(* utils/iana.go *)

largestIanaProtoNameIndex == 256

\* the table init() fills from the embedded CSV: row[1], or row[2] when row[1]
\* is empty; rows the CSV does not hold stay ""
IanaProtocolNumberNames ==
    [n \in 0..(largestIanaProtoNameIndex - 1) |->
        CASE n = 1 -> "ICMP"
          [] n = 6 -> "TCP"
          [] n = 17 -> "UDP"
          [] n = 58 -> "IPv6-ICMP"
          [] n = 68 -> "any distributed file system"
          [] n = 255 -> "Reserved"
          [] OTHER -> ""]

\* what indexing the array outside 0..255 does: the runtime panics
IndexOutOfRange == "panic: index out of range"

IanaProtocolNumberToName(protocolNumber) ==
    IF protocolNumber > largestIanaProtoNameIndex
    THEN ""
    ELSE IF protocolNumber \in DOMAIN IanaProtocolNumberNames
         THEN IanaProtocolNumberNames[protocolNumber]
         ELSE IndexOutOfRange

-----------------------------------------------------------------------------
(* pb: string forms of addresses *)

\* netip.Addr.String() of the sample addresses
AddrObjString(b) ==
    CASE b = SampleAddr -> "192.168.88.142"
      [] OTHER -> "invalid IP"

\* pb.EnrichedFlow.SrcMacString(separator)
MacString(mac, sep) ==
    CASE mac = SampleMac /\ sep = "dash" -> "cd-ab-00-00-00-00"
      [] mac = SampleMac -> "cd:ab:00:00:00:00"
      [] sep = "dash" -> "00-00-00-00-00-00"
      [] OTHER -> "00:00:00:00:00:00"

-----------------------------------------------------------------------------
(* Segment instances *)

\* Protomap.New: no options
ProtomapNew == [kind |-> "protomap"]

\* AddrStrings.New: colon unless config["macseparator"] contains "dash"
AddrStringsNew(macseparator) ==
    [kind |-> "addrstrings",
     Separator |-> IF macseparator = "dash" THEN "dash" ELSE "colon"]

K == Len(conf)

Segs == 1..K

Chans == 0..K

Running == proc = "running"

\* sync.WaitGroup.Done: the counter drops by one; a negative counter panics
WgAfterDone(n) == n - 1

ProcAfterDone(n) == IF WgAfterDone(n) < 0 THEN "panicked" ELSE proc

-----------------------------------------------------------------------------
(* main() and the pipeline (Start, AutoDrain, Close) *)

\* pipe.Start(): one barrier increment and one Run task per segment
Start ==
    /\ Running /\ mainpc = "new"
    /\ mainpc' = "started"
    /\ wg' = wg + K
    /\ pc' = [i \in Segs |-> "run"]
    /\ UNCHANGED <<conf, feed, fed, slot, closes, hand, rcvd, proc, seen>>
    /\ UNCHANGED segVars

\* pipe.AutoDrain(): the terminal drain task is started
AutoDrain ==
    /\ Running /\ mainpc = "started"
    /\ mainpc' = "serving"
    /\ UNCHANGED <<conf, feed, fed, slot, closes, pc, hand, rcvd, wg, proc, seen>>
    /\ UNCHANGED segVars

\* the drain task: read and discard one record of the last segment's out
Drain ==
    /\ Running /\ mainpc \in {"serving", "closing"}
    /\ slot[K] # NoMsg
    /\ seen' = Append(seen, slot[K])
    /\ slot' = [slot EXCEPT ![K] = NoMsg]
    /\ UNCHANGED <<conf, feed, fed, closes, pc, hand, rcvd, wg, mainpc, proc>>
    /\ UNCHANGED segVars

\* the producer of the ingress channel sends its next record
Feed ==
    /\ Running /\ mainpc \in {"started", "serving"}
    /\ feed # <<>> /\ slot[0] = NoMsg
    /\ slot' = [slot EXCEPT ![0] = Head(feed)]
    /\ fed' = Append(fed, Head(feed))
    /\ feed' = Tail(feed)
    /\ UNCHANGED <<conf, closes, pc, hand, rcvd, wg, mainpc, proc, seen>>
    /\ UNCHANGED segVars

\* <-sigs; pipe.Close() closes the ingress channel ...
Close ==
    /\ Running /\ mainpc = "serving"
    /\ slot[0] = NoMsg
    /\ mainpc' = "closing"
    /\ closes' = [closes EXCEPT ![0] = @ + 1]
    /\ UNCHANGED <<conf, feed, fed, slot, pc, hand, rcvd, wg, proc, seen>>
    /\ UNCHANGED segVars

\* ... awaits the barrier and returns; main returns and the process ends
CloseReturn ==
    /\ Running /\ mainpc = "closing"
    /\ wg = 0
    /\ mainpc' = "returned"
    /\ proc' = "exited"
    /\ UNCHANGED <<conf, feed, fed, slot, closes, pc, hand, rcvd, wg, seen>>
    /\ UNCHANGED segVars

-----------------------------------------------------------------------------
(* protomap *)

\* the loop body of Protomap.Run applied to msg
ProtomapBody(msg) ==
    LET proto == IanaProtocolNumberToName(msg.Proto)
    IN  [msg EXCEPT !.ProtoName = IF proto = "" THEN "UNKNOWN" ELSE proto]

\* (mutant of ProtomapAtRange: the loop receives while its send is still parked)
ProtomapReceivesEarly(i) == TRUE

\* whether Run may take the next element of its in: the previous
\* `segment.Out <- msg` has completed
ProtomapAtRange(i) == slot[i] = NoMsg

\* for msg := range segment.In { ...; segment.Out <- msg }
ProtomapRun(i) ==
    /\ Running /\ conf[i].kind = "protomap" /\ pc[i] = "run"
    /\ ProtomapAtRange(i)
    /\ slot[i - 1] # NoMsg
    /\ LET msg == slot[i - 1]
       IN  /\ rcvd' = [rcvd EXCEPT ![i] = Append(@, msg)]
           /\ IF IanaProtocolNumberToName(msg.Proto) = IndexOutOfRange
              THEN /\ proc' = "panicked"
                   /\ slot' = [slot EXCEPT ![i - 1] = NoMsg]
              ELSE /\ proc' = proc
                   /\ slot' = [slot EXCEPT ![i - 1] = NoMsg, ![i] = ProtomapBody(msg)]
    /\ UNCHANGED <<conf, feed, fed, closes, pc, hand, wg, mainpc, seen>>
    /\ UNCHANGED segVars

\* in is closed and drained: the deferred close(segment.Out); wg.Done()
ProtomapReturn(i) ==
    /\ Running /\ conf[i].kind = "protomap" /\ pc[i] = "run"
    /\ ProtomapAtRange(i)
    /\ slot[i - 1] = NoMsg /\ closes[i - 1] > 0
    /\ closes' = [closes EXCEPT ![i] = @ + 1]
    /\ wg' = WgAfterDone(wg)
    /\ proc' = ProcAfterDone(wg)
    /\ pc' = [pc EXCEPT ![i] = "done"]
    /\ UNCHANGED <<conf, feed, fed, slot, hand, rcvd, mainpc, seen>>
    /\ UNCHANGED segVars

-----------------------------------------------------------------------------
(* addrstrings *)

\* the loop body of AddrStrings.Run applied to original
AddrStringsBody(original, Separator) ==
    [original EXCEPT
        !.SourceIP = IF original.SrcAddr # NilAddr
                     THEN AddrObjString(original.SrcAddr) ELSE @,
        !.DestinationIP = IF original.DstAddr # NilAddr
                          THEN AddrObjString(original.DstAddr) ELSE @,
        !.NextHopIP = IF original.NextHop # NilAddr
                      THEN AddrObjString(original.NextHop) ELSE @,
        !.SamplerIP = IF original.SamplerAddress # NilAddr
                      THEN AddrObjString(original.SamplerAddress) ELSE @,
        !.SourceMAC = IF original.SrcMac # 0
                      THEN MacString(original.SrcMac, Separator) ELSE @,
        !.DestinationMAC = IF original.DstMac # 0
                           THEN MacString(original.DstMac, Separator) ELSE @]

\* whether Run may take the next element of its in: the previous
\* `segment.Out <- original` has completed
AddrStringsAtRange(i) == slot[i] = NoMsg

\* for original := range segment.In { ...; segment.Out <- original }
AddrStringsRun(i) ==
    /\ Running /\ conf[i].kind = "addrstrings" /\ pc[i] = "run"
    /\ AddrStringsAtRange(i)
    /\ slot[i - 1] # NoMsg
    /\ LET original == slot[i - 1]
       IN  /\ rcvd' = [rcvd EXCEPT ![i] = Append(@, original)]
           /\ slot' = [slot EXCEPT ![i - 1] = NoMsg,
                                   ![i] = AddrStringsBody(original, conf[i].Separator)]
    /\ UNCHANGED <<conf, feed, fed, closes, pc, hand, wg, mainpc, proc, seen>>
    /\ UNCHANGED segVars

\* in is closed and drained: the deferred close(segment.Out); wg.Done()
AddrStringsReturn(i) ==
    /\ Running /\ conf[i].kind = "addrstrings" /\ pc[i] = "run"
    /\ AddrStringsAtRange(i)
    /\ slot[i - 1] = NoMsg /\ closes[i - 1] > 0
    /\ closes' = [closes EXCEPT ![i] = @ + 1]
    /\ wg' = WgAfterDone(wg)
    /\ proc' = ProcAfterDone(wg)
    /\ pc' = [pc EXCEPT ![i] = "done"]
    /\ UNCHANGED <<conf, feed, fed, slot, hand, rcvd, mainpc, seen>>
    /\ UNCHANGED segVars

-----------------------------------------------------------------------------
(* lumberjack: New *)

defaultQueueSize == 65536

defaultBatchSize == 64

\* an option that is absent from the configuration (the empty string), and one
\* that is present with value v
Absent == <<>>

Opt(v) == <<v>>

\* an option that is set to a text its type's parser rejects (strconv.Atoi,
\* strconv.ParseUint, strconv.ParseBool, time.ParseDuration return an error)
Unparseable == <<-1, -1>>

ParseError(option) == Len(option) = 2

\* the part of Lumberjack.New that parses the `count` parameter of a server URL
numRoutines(count) ==
    IF count = Absent THEN 1
    ELSE IF count[1] < 1 THEN 1 ELSE count[1]

\* the part of Lumberjack.New that parses the batchsize option
NewBatchSize(batchsize) ==
    LET parsed == IF batchsize # Absent THEN batchsize[1] ELSE defaultBatchSize
    IN  IF parsed < 0 THEN defaultBatchSize ELSE parsed

\* the part of Lumberjack.New that parses the batchdebug option; the field of
\* the registered prototype is nil
NewBatchDebugPrintf(batchdebug) ==
    IF batchdebug # Absent
    THEN IF batchdebug[1] THEN "DoDebugPrintf" ELSE "NoDebugPrintf"
    ELSE "nil"

\* the part of Lumberjack.New that sizes the buffered channel LumberjackOut
bufferLength(queuesize) ==
    LET parsed == IF queuesize # Absent THEN queuesize[1] ELSE defaultQueueSize
    IN  IF parsed < 64 THEN defaultQueueSize ELSE parsed

\* Lumberjack.New(config): segment.Servers is a map keyed by host, a later
\* URL of the same host replaces an earlier one
LumberjackNew(config) ==
    [kind |-> "lumberjack",
     Servers |->
        [h \in {config.servers[j].host : j \in DOMAIN config.servers} |->
            LET last == CHOOSE j \in DOMAIN config.servers :
                            /\ config.servers[j].host = h
                            /\ \A l \in DOMAIN config.servers :
                                  config.servers[l].host = h => l <= j
            IN  [Parallelism |-> numRoutines(config.servers[last].count)]],
     BatchSize |-> NewBatchSize(config.batchsize),
     BatchDebugPrintf |-> NewBatchDebugPrintf(config.batchdebug),
     QueueCap |-> bufferLength(config.queuesize),
     config |-> config]

IsLumberjack(c) == c.kind = "lumberjack"

\* the servers and the worker tasks of the pipeline's Lumberjack segment:
\* Run starts Parallelism tasks per entry of segment.Servers
ServersOf(c) ==
    UNION {DOMAIN c[i].Servers : i \in {j \in DOMAIN c : IsLumberjack(c[j])}}

WorkersOf(c) ==
    UNION {{<<h, n>> : n \in 1..c[i].Servers[h].Parallelism} :
           h \in ServersOf(c), i \in {j \in DOMAIN c : IsLumberjack(c[j])}}

LJ == CHOOSE i \in Segs : IsLumberjack(conf[i])

Workers == DOMAIN wpc

-----------------------------------------------------------------------------
(* lumberjack: ECS document of a flow *)

\* IanaProtocolNumberToLowercaseName: the same guard and the table of
\* strings.ToLower of the names
IanaProtocolNumberToLowercaseName(protocolNumber) ==
    LET name == IanaProtocolNumberToName(protocolNumber)
    IN  CASE name = "ICMP" -> "icmp"
          [] name = "TCP" -> "tcp"
          [] name = "UDP" -> "udp"
          [] name = "IPv6-ICMP" -> "ipv6-icmp"
          [] name = "Reserved" -> "reserved"
          [] OTHER -> name

\* the part of ECSFromEnrichedFlow that sets SourceIPString and
\* SourceAddress (DestinationIPString and DestinationAddress): the string of
\* the flow when it has one, else the raw address when it parses
ECSIPString(IP, Addr) ==
    IF IP # "" THEN IP
    ELSE IF Addr # NilAddr THEN AddrObjString(Addr) ELSE ""

\* the part of ECSFromEnrichedFlow that sets SourceMAC (DestinationMAC):
\* nothing unless the raw field is set, then the string of the flow when it
\* has one, else the raw field with dashes
ECSMAC(Mac, MAC) ==
    IF Mac # 0
    THEN IF MAC # "" THEN MAC ELSE MacString(Mac, "dash")
    ELSE ""

\* (mutant of ECSTimestamp: the time of the conversion)
ECSTimestampNow(enrichedFlow, clock) == clock

\* Timestamp: enrichedFlow.GetTimeFlowStartMs()
ECSTimestamp(enrichedFlow, clock) == enrichedFlow.TimeFlowStartMs

\* result := &ElasticCommonSchema{...} of ECSFromEnrichedFlow called at time
\* clock, for a flow with every field the mapping reads.  Duration is the
\* int64 of the uint64 difference, which is the signed difference.
ElasticCommonSchema(enrichedFlow, clock) ==
    [Timestamp |-> ECSTimestamp(enrichedFlow, clock),
     Event |-> [Created |-> clock,
                Start |-> enrichedFlow.TimeFlowStartMs,
                End |-> enrichedFlow.TimeFlowEndMs,
                Duration |-> enrichedFlow.TimeFlowEndNs - enrichedFlow.TimeFlowStartNs],
     Source |-> [Address |-> ECSIPString(enrichedFlow.SourceIP, enrichedFlow.SrcAddr),
                 IP |-> ECSIPString(enrichedFlow.SourceIP, enrichedFlow.SrcAddr),
                 MAC |-> ECSMAC(enrichedFlow.SrcMac, enrichedFlow.SourceMAC),
                 Bytes |-> enrichedFlow.Bytes,
                 Packets |-> enrichedFlow.Packets,
                 Port |-> enrichedFlow.SrcPort,
                 AutonomousSystem |-> IF enrichedFlow.SrcAs # 0
                                      THEN Opt(enrichedFlow.SrcAs) ELSE Absent],
     Destination |-> [Address |-> ECSIPString(enrichedFlow.DestinationIP,
                                              enrichedFlow.DstAddr),
                      IP |-> ECSIPString(enrichedFlow.DestinationIP, enrichedFlow.DstAddr),
                      MAC |-> ECSMAC(enrichedFlow.DstMac, enrichedFlow.DestinationMAC),
                      Bytes |-> 0,
                      Packets |-> 0,
                      Port |-> enrichedFlow.DstPort,
                      AutonomousSystem |-> IF enrichedFlow.DstAs # 0
                                           THEN Opt(enrichedFlow.DstAs) ELSE Absent],
     ICMP |-> IF enrichedFlow.Proto = 1 \/ enrichedFlow.Proto = 58
              THEN Opt([Type |-> enrichedFlow.IcmpType, Code |-> enrichedFlow.IcmpCode])
              ELSE Absent,
     Network |-> [IanaNumber |-> enrichedFlow.Proto,
                  Transport |-> IanaProtocolNumberToLowercaseName(enrichedFlow.Proto),
                  Bytes |-> enrichedFlow.Bytes,
                  Packets |-> enrichedFlow.Packets,
                  Type |-> CASE enrichedFlow.Etype = 2048 -> "ipv4"
                             [] enrichedFlow.Etype = 34525 -> "ipv6"
                             [] OTHER -> ""],
     Related |-> [IP |-> <<ECSIPString(enrichedFlow.SourceIP, enrichedFlow.SrcAddr),
                           ECSIPString(enrichedFlow.DestinationIP, enrichedFlow.DstAddr)>>]]

\* ECSFromEnrichedFlow: the fields of the document the model of the workers
\* keeps
ECSFromEnrichedFlow(enrichedFlow) ==
    [id |-> enrichedFlow.id,
     SourceIP |-> ECSIPString(enrichedFlow.SourceIP, enrichedFlow.SrcAddr),
     DestinationIP |-> ECSIPString(enrichedFlow.DestinationIP, enrichedFlow.DstAddr),
     IanaNumber |-> enrichedFlow.Proto]

DocIds(docs) == [j \in DOMAIN docs |-> docs[j].id]

-----------------------------------------------------------------------------
(* lumberjack: Run *)

\* Run up to the range loop: per server writerWG.Add(1), and Parallelism
\* worker tasks are started
LumberjackSpawn(i) ==
    /\ Running /\ IsLumberjack(conf[i]) /\ pc[i] = "run"
    /\ writerWG' = writerWG + Cardinality(DOMAIN conf[i].Servers)
    /\ wpc' = [w \in Workers |-> "connect"]
    /\ pc' = [pc EXCEPT ![i] = "range"]
    /\ UNCHANGED <<conf, feed, fed, slot, closes, hand, rcvd, wg, mainpc, proc, seen>>
    /\ UNCHANGED <<queue, queueClosed, enq, buf, timerSet, tm, conn, serverUp,
                   deq, sendlog, delivered>>
    /\ UNCHANGED notLJ

\* (mutant of LumberjackAtRange: Run takes the next element while its send
\* on out is still parked)
LumberjackRangesEarly(i) == pc[i] = "range"

\* whether Run may take the next element of its in: the previous
\* `segment.Out <- msg` has completed
LumberjackAtRange(i) == pc[i] = "range" /\ slot[i] = NoMsg

\* for msg := range segment.In
LumberjackReceive(i) ==
    /\ Running /\ IsLumberjack(conf[i])
    /\ LumberjackAtRange(i)
    /\ slot[i - 1] # NoMsg
    /\ hand' = [hand EXCEPT ![i] = slot[i - 1]]
    /\ rcvd' = [rcvd EXCEPT ![i] = Append(@, slot[i - 1])]
    /\ slot' = [slot EXCEPT ![i - 1] = NoMsg]
    /\ pc' = [pc EXCEPT ![i] = "enqueue"]
    /\ UNCHANGED <<conf, feed, fed, closes, wg, mainpc, proc, seen>>
    /\ UNCHANGED segVars
    /\ UNCHANGED notLJ

\* (mutant of LumberjackForward: the record is queued for export only)
LumberjackForwardNothing(msg) == NoMsg

\* what Run sends on its out after it has queued msg
LumberjackForward(msg) == msg

\* (mutant of QueueHasRoom: a send on the queue never blocks)
QueueAlwaysHasRoom(i) == TRUE

\* a send on segment.LumberjackOut, a channel made with bufferLength slots,
\* completes only while fewer than that many elements are buffered
QueueHasRoom(i) == Len(queue) < conf[i].QueueCap

\* segment.LumberjackOut <- msg (blocks while the queue is full);
\* segment.Out <- msg
LumberjackEnqueue(i) ==
    /\ Running /\ IsLumberjack(conf[i]) /\ pc[i] = "enqueue"
    /\ QueueHasRoom(i)
    /\ queue' = Append(queue, hand[i])
    /\ enq' = Append(enq, hand[i].id)
    /\ slot' = [slot EXCEPT ![i] = LumberjackForward(hand[i])]
    /\ hand' = [hand EXCEPT ![i] = NoMsg]
    /\ pc' = [pc EXCEPT ![i] = "range"]
    /\ UNCHANGED <<conf, feed, fed, closes, rcvd, wg, mainpc, proc, seen>>
    /\ UNCHANGED <<queueClosed, writerWG, wpc, buf, timerSet, tm, conn, serverUp,
                   deq, sendlog, delivered>>
    /\ UNCHANGED notLJ

\* in is closed and drained: close(segment.LumberjackOut), Run returns and
\* its deferred function starts
LumberjackLoopExit(i) ==
    /\ Running /\ IsLumberjack(conf[i])
    /\ LumberjackAtRange(i)
    /\ slot[i - 1] = NoMsg /\ closes[i - 1] > 0
    /\ queueClosed' = TRUE
    /\ pc' = [pc EXCEPT ![i] = "deferclose"]
    /\ UNCHANGED <<conf, feed, fed, slot, closes, hand, rcvd, wg, mainpc, proc, seen>>
    /\ UNCHANGED <<queue, enq, writerWG, wpc, buf, timerSet, tm, conn, serverUp,
                   deq, sendlog, delivered>>
    /\ UNCHANGED notLJ

\* the deferred function: close(segment.Out)
LumberjackDeferClose(i) ==
    /\ Running /\ IsLumberjack(conf[i]) /\ pc[i] = "deferclose"
    /\ closes' = [closes EXCEPT ![i] = @ + 1]
    /\ pc' = [pc EXCEPT ![i] = "deferwait"]
    /\ UNCHANGED <<conf, feed, fed, slot, hand, rcvd, wg, mainpc, proc, seen>>
    /\ UNCHANGED segVars
    /\ UNCHANGED notLJ

\* the deferred function: writerWG.Wait(); wg.Done()
LumberjackDeferDone(i) ==
    /\ Running /\ IsLumberjack(conf[i]) /\ pc[i] = "deferwait"
    /\ writerWG = 0
    /\ wg' = WgAfterDone(wg)
    /\ proc' = ProcAfterDone(wg)
    /\ pc' = [pc EXCEPT ![i] = IF WgAfterDone(wg) < 0 THEN @ ELSE "done"]
    /\ UNCHANGED <<conf, feed, fed, slot, closes, hand, rcvd, mainpc, seen>>
    /\ UNCHANGED segVars
    /\ UNCHANGED notLJ

-----------------------------------------------------------------------------
(* lumberjack: the worker tasks *)

Server(w) == w[1]

\* calling segment.BatchDebugPrintf: a nil function value panics
ProcAfterDebugPrintf == IF conf[LJ].BatchDebugPrintf = "nil" THEN "panicked" ELSE proc

\* client := NewResilientClient(...); flowInterface := make(..., BatchSize);
\* idx := 0; timer := time.NewTimer(BatchTimeout); timer.Stop()
WorkerStart(w) ==
    /\ Running /\ wpc[w] = "connect"
    /\ conn' = [conn EXCEPT ![w] = "Connecting"]
    /\ buf' = [buf EXCEPT ![w] = <<>>]
    /\ tm' = [tm EXCEPT ![w] = "stopped"]
    /\ timerSet' = [timerSet EXCEPT ![w] = FALSE]
    /\ wpc' = [wpc EXCEPT ![w] = "select"]
    /\ UNCHANGED pipeVars
    /\ UNCHANGED <<queue, queueClosed, enq, writerWG, serverUp, deq, sendlog, delivered>>
    /\ UNCHANGED notLJ

\* the runtime fires an armed timer: a value is put in timer.C
TimerFire(w) ==
    /\ Running /\ tm[w] = "armed"
    /\ tm' = [tm EXCEPT ![w] = "fired"]
    /\ UNCHANGED pipeVars
    /\ UNCHANGED <<queue, queueClosed, enq, writerWG, wpc, buf, timerSet, conn,
                   serverUp, deq, sendlog, delivered>>
    /\ UNCHANGED notLJ

\* (mutant of StopAndDrain: timer.Stop() without the receive from timer.C)
StopWithoutDrain(t) == IF t = "armed" THEN "stopped" ELSE t

\* if !timer.Stop() { <-timer.C }: an armed timer is stopped; an expired one
\* whose value is still in timer.C is drained; with an expired timer and an
\* empty timer.C the receive never returns
StopAndDrain(t) ==
    CASE t = "armed" -> "stopped"
      [] t = "fired" -> "expired"
      [] OTHER -> "blocked"

\* (mutant of TimerReceive: the value stays in timer.C)
TimerReceiveKeeps(t) == t

\* <-timer.C: the value is taken out of timer.C; the timer it came from has
\* expired, unless it was reset since
TimerReceive(t) == IF t = "stale" THEN "armed" ELSE "expired"

\* timer.Reset(segment.BatchTimeout): the timer runs again; a value an
\* earlier expiry left in timer.C stays there
TimerReset(t) == IF t = "fired" THEN "stale" ELSE "armed"

\* (mutant of BatchFull: the batch is sent one record late)
BatchFullLate(docs) == Len(docs) = conf[LJ].BatchSize + 1

\* idx == segment.BatchSize
BatchFull(docs) == Len(docs) = conf[LJ].BatchSize

\* (mutant of BufferAppend: the document is put in front of the buffered ones)
BufferPrepend(docs, doc) == <<doc>> \o docs

\* flowInterface[idx] = ECSFromEnrichedFlow(flow); idx++
BufferAppend(docs, doc) == Append(docs, doc)

\* case flow, isOpen := <-segment.LumberjackOut with isOpen: append the flow
\* and, when the batch is full, stop and drain the timer and call client.Send
WorkerDequeue(w) ==
    /\ Running /\ wpc[w] = "select"
    /\ queue # <<>>
    /\ queue' = Tail(queue)
    /\ deq' = [deq EXCEPT ![w] = Append(@, Head(queue).id)]
    /\ IF Len(buf[w]) >= conf[LJ].BatchSize
       THEN \* flowInterface[idx] with idx = len(flowInterface)
            /\ proc' = "panicked"
            /\ UNCHANGED <<buf, wpc, timerSet, tm, sendlog>>
       ELSE LET docs == BufferAppend(buf[w], ECSFromEnrichedFlow(Head(queue)))
            IN  /\ proc' = proc
                /\ buf' = [buf EXCEPT ![w] = docs]
                /\ IF ~BatchFull(docs)
                   THEN UNCHANGED <<wpc, timerSet, tm, sendlog>>
                   ELSE IF timerSet[w] /\ StopAndDrain(tm[w]) = "blocked"
                   THEN /\ wpc' = [wpc EXCEPT ![w] = "drain"]
                        /\ UNCHANGED <<timerSet, tm, sendlog>>
                   ELSE /\ timerSet' = [timerSet EXCEPT ![w] = FALSE]
                        /\ tm' = [tm EXCEPT ![w] =
                                    IF timerSet[w] THEN StopAndDrain(@) ELSE @]
                        /\ sendlog' = [sendlog EXCEPT ![w] =
                                         Append(@, [fn |-> "Send", ids |-> DocIds(docs)])]
                        /\ wpc' = [wpc EXCEPT ![w] = "sendfull"]
    /\ UNCHANGED <<conf, feed, fed, slot, closes, pc, hand, rcvd, wg, mainpc, seen>>
    /\ UNCHANGED <<queueClosed, enq, writerWG, conn, serverUp, delivered>>
    /\ UNCHANGED notLJ

\* (mutant of WorkerTimer: the buffer is sent without the test idx > 0)
WorkerTimerSendsEmpty(w) ==
    /\ Running /\ wpc[w] = "select"
    /\ tm[w] \in {"fired", "stale"}
    /\ proc' = ProcAfterDebugPrintf
    /\ sendlog' = [sendlog EXCEPT ![w] =
                     Append(@, [fn |-> "Send", ids |-> DocIds(buf[w])])]
    /\ tm' = [tm EXCEPT ![w] = TimerReceive(@)]
    /\ wpc' = [wpc EXCEPT ![w] = "sendtimer"]
    /\ UNCHANGED timerSet
    /\ UNCHANGED <<conf, feed, fed, slot, closes, pc, hand, rcvd, wg, mainpc, seen>>
    /\ UNCHANGED <<queue, queueClosed, enq, writerWG, buf, conn, serverUp, deq, delivered>>
    /\ UNCHANGED notLJ

\* case <-timer.C
WorkerTimer(w) ==
    /\ Running /\ wpc[w] = "select"
    /\ tm[w] \in {"fired", "stale"}
    /\ proc' = ProcAfterDebugPrintf
    /\ IF buf[w] # <<>>
       THEN \* client.Send(flowInterface[:idx]); the timer is reset on return
            /\ sendlog' = [sendlog EXCEPT ![w] =
                             Append(@, [fn |-> "Send", ids |-> DocIds(buf[w])])]
            /\ tm' = [tm EXCEPT ![w] = TimerReceive(@)]
            /\ wpc' = [wpc EXCEPT ![w] = "sendtimer"]
            /\ UNCHANGED timerSet
       ELSE /\ tm' = [tm EXCEPT ![w] = TimerReset(TimerReceive(@))]
            /\ timerSet' = [timerSet EXCEPT ![w] = TRUE]
            /\ UNCHANGED <<sendlog, wpc>>
    /\ UNCHANGED <<conf, feed, fed, slot, closes, pc, hand, rcvd, wg, mainpc, seen>>
    /\ UNCHANGED <<queue, queueClosed, enq, writerWG, buf, conn, serverUp, deq, delivered>>
    /\ UNCHANGED notLJ

InSend(w) == wpc[w] \in {"sendfull", "sendtimer"}

\* (mutant of SendReturn: idx is not set back to 0)
SendReturnKeepsBatch(w, ok) ==
    /\ proc' = IF wpc[w] = "sendfull" THEN ProcAfterDebugPrintf ELSE proc
    /\ delivered' = [delivered EXCEPT ![w] =
                        IF ok THEN Append(@, DocIds(buf[w])) ELSE @]
    /\ buf' = buf
    /\ timerSet' = [timerSet EXCEPT ![w] = TRUE]
    /\ tm' = [tm EXCEPT ![w] = TimerReset(@)]
    /\ wpc' = [wpc EXCEPT ![w] = "select"]

\* client.Send returns to the worker loop: the batch is cleared and the
\* timer is reset
SendReturn(w, ok) ==
    /\ proc' = IF wpc[w] = "sendfull" THEN ProcAfterDebugPrintf ELSE proc
    /\ delivered' = [delivered EXCEPT ![w] =
                        IF ok THEN Append(@, DocIds(buf[w])) ELSE @]
    /\ buf' = [buf EXCEPT ![w] = <<>>]
    /\ timerSet' = [timerSet EXCEPT ![w] = TRUE]
    /\ tm' = [tm EXCEPT ![w] = TimerReset(@)]
    /\ wpc' = [wpc EXCEPT ![w] = "select"]

\* client.Send, connecting: the attempt succeeds or fails
SendConnect(w) ==
    /\ Running /\ InSend(w)
    /\ conn[w] = "Connecting"
    /\ conn' = [conn EXCEPT ![w] = IF serverUp[Server(w)] THEN "Streaming" ELSE "Backoff"]
    /\ UNCHANGED pipeVars
    /\ UNCHANGED <<queue, queueClosed, enq, writerWG, wpc, buf, timerSet, tm,
                   serverUp, deq, sendlog, delivered>>
    /\ UNCHANGED notLJ

\* client.Send, backing off: reconnectwait has elapsed
SendBackoff(w) ==
    /\ Running /\ InSend(w) /\ ~queueClosed
    /\ conn[w] = "Backoff"
    /\ conn' = [conn EXCEPT ![w] = "Connecting"]
    /\ UNCHANGED pipeVars
    /\ UNCHANGED <<queue, queueClosed, enq, writerWG, wpc, buf, timerSet, tm,
                   serverUp, deq, sendlog, delivered>>
    /\ UNCHANGED notLJ

\* client.Send, streaming: the batch is transmitted and Send returns, or the
\* transmission fails and the connection is closed
SendTransmit(w) ==
    /\ Running /\ InSend(w)
    /\ conn[w] = "Streaming"
    /\ IF serverUp[Server(w)]
       THEN /\ SendReturn(w, TRUE)
            /\ UNCHANGED conn
       ELSE /\ conn' = [conn EXCEPT ![w] = "Backoff"]
            /\ UNCHANGED <<proc, delivered, buf, timerSet, tm, wpc>>
    /\ UNCHANGED <<conf, feed, fed, slot, closes, pc, hand, rcvd, wg, mainpc, seen>>
    /\ UNCHANGED <<queue, queueClosed, enq, writerWG, serverUp, deq, sendlog>>
    /\ UNCHANGED notLJ

\* client.Send, between two attempts: it gives up once the input queue is
\* closed
SendAbort(w) ==
    /\ Running /\ InSend(w) /\ queueClosed
    /\ conn[w] = "Backoff"
    /\ conn' = [conn EXCEPT ![w] = "Connecting"]
    /\ SendReturn(w, FALSE)
    /\ UNCHANGED <<conf, feed, fed, slot, closes, pc, hand, rcvd, wg, mainpc, seen>>
    /\ UNCHANGED <<queue, queueClosed, enq, writerWG, serverUp, deq, sendlog>>
    /\ UNCHANGED notLJ

\* (mutant of QueueClosedAndDrained: closure is seen before the queued
\* records were received)
QueueClosedEarly == queueClosed

\* flow, isOpen := <-segment.LumberjackOut yields !isOpen: the channel is
\* closed and holds no record
QueueClosedAndDrained == queue = <<>> /\ queueClosed

\* case flow, isOpen := <-segment.LumberjackOut with !isOpen:
\* client.SendNoRetry(flowInterface[:idx]) and the log line that follows it
WorkerFinal(w) ==
    /\ Running /\ wpc[w] = "select"
    /\ QueueClosedAndDrained
    /\ sendlog' = [sendlog EXCEPT ![w] =
                     Append(@, [fn |-> "SendNoRetry", ids |-> DocIds(buf[w])])]
    /\ IF serverUp[Server(w)]
       THEN /\ delivered' = [delivered EXCEPT ![w] = Append(@, DocIds(buf[w]))]
            /\ conn' = [conn EXCEPT ![w] = "Streaming"]
            /\ proc' = ProcAfterDebugPrintf
       ELSE UNCHANGED <<delivered, conn, proc>>
    /\ wpc' = [wpc EXCEPT ![w] = "wgdone"]
    /\ UNCHANGED <<conf, feed, fed, slot, closes, pc, hand, rcvd, wg, mainpc, seen>>
    /\ UNCHANGED <<queue, queueClosed, enq, writerWG, buf, timerSet, tm, serverUp, deq>>
    /\ UNCHANGED notLJ

\* wg.Done() on the pipeline's barrier, in the queue-closed branch
WorkerBarrierDone(w) ==
    /\ Running /\ wpc[w] = "wgdone"
    /\ wg' = WgAfterDone(wg)
    /\ proc' = ProcAfterDone(wg)
    /\ wpc' = [wpc EXCEPT ![w] = "return"]
    /\ UNCHANGED <<conf, feed, fed, slot, closes, pc, hand, rcvd, mainpc, seen>>
    /\ UNCHANGED <<queue, queueClosed, enq, writerWG, buf, timerSet, tm, conn,
                   serverUp, deq, sendlog, delivered>>
    /\ UNCHANGED notLJ

\* return: the deferred timer.Stop(), client.Close() and writerWG.Done()
WorkerReturn(w) ==
    /\ Running /\ wpc[w] = "return"
    /\ writerWG' = WgAfterDone(writerWG)
    /\ proc' = IF WgAfterDone(writerWG) < 0 THEN "panicked" ELSE proc
    /\ tm' = [tm EXCEPT ![w] = "stopped"]
    /\ wpc' = [wpc EXCEPT ![w] = "done"]
    /\ UNCHANGED <<conf, feed, fed, slot, closes, pc, hand, rcvd, wg, mainpc, seen>>
    /\ UNCHANGED <<queue, queueClosed, enq, buf, timerSet, conn, serverUp, deq,
                   sendlog, delivered>>
    /\ UNCHANGED notLJ

\* the network: a server becomes reachable or unreachable
ServerChange(s) ==
    /\ Running
    /\ serverUp' = [serverUp EXCEPT ![s] = ~@]
    /\ UNCHANGED pipeVars
    /\ UNCHANGED <<queue, queueClosed, enq, writerWG, wpc, buf, timerSet, tm, conn,
                   deq, sendlog, delivered>>
    /\ UNCHANGED notLJ

-----------------------------------------------------------------------------
(* resolveips *)

DefaultQueueLength == 2000000

\* ResolveIPs.New(config): the capacity of the ResolveQueue channel
ResolveIPsNew(config) ==
    [kind |-> "resolveips",
     QueueLength |-> IF config.queuelength = Absent
                     THEN DefaultQueueLength ELSE config.queuelength[1]]

IsResolveIPs(c) == c.kind = "resolveips"

\* the fields a resolver task looks up
LookupFields == {"Src", "Dst", "NextHop", "Sampler"}

SampleHostName == "host142.example.org."

\* net.DefaultResolver.LookupAddr(ctx, ip) when the resolver answers in time
LookupAddr(ip) == IF ip = AddrObjString(SampleAddr) THEN <<SampleHostName>> ELSE <<>>

\* resolveHostName(ip, getAddrObjFunc, assignHostNameFunc): the host name it
\* assigns, old when it assigns none; answered is whether the lookup
\* returned within the context's timeout
resolveHostName(ip, addrObjString, old, answered) ==
    LET result == IF ~answered THEN <<>>
                  ELSE IF ip # "" THEN LookupAddr(ip) ELSE LookupAddr(addrObjString)
    IN  IF Len(result) > 0 THEN result[1] ELSE old

\* the flow after the four lookups of NewFutureResolver's task
ResolveHostNames(flow, answered) ==
    [flow EXCEPT
        !.SrcHostName = resolveHostName(flow.SourceIP, AddrObjString(flow.SrcAddr),
                                        @, "Src" \in answered),
        !.DstHostName = resolveHostName(flow.DestinationIP, AddrObjString(flow.DstAddr),
                                        @, "Dst" \in answered),
        !.NextHopHostName = resolveHostName(flow.NextHopIP, AddrObjString(flow.NextHop),
                                            @, "NextHop" \in answered),
        !.SamplerHostName = resolveHostName(flow.SamplerIP,
                                            AddrObjString(flow.SamplerAddress),
                                            @, "Sampler" \in answered)]

\* Run starts the task that forwards results and reaches its loop
ResolveIPsSpawn(i) ==
    /\ Running /\ IsResolveIPs(conf[i]) /\ pc[i] = "run"
    /\ pc' = [pc EXCEPT ![i] = "range"]
    /\ fpc' = "range"
    /\ UNCHANGED <<conf, feed, fed, slot, closes, hand, rcvd, wg, mainpc, proc, seen>>
    /\ UNCHANGED <<resQueue, future, fcur>>
    /\ UNCHANGED notRes

\* for flow := range segment.In, and NewFutureResolver(flow): the future is
\* made and its resolver task started
ResolveIPsReceive(i) ==
    /\ Running /\ IsResolveIPs(conf[i]) /\ pc[i] = "range"
    /\ slot[i - 1] # NoMsg
    /\ LET flow == slot[i - 1]
       IN  /\ hand' = [hand EXCEPT ![i] = flow]
           /\ rcvd' = [rcvd EXCEPT ![i] = Append(@, flow)]
           /\ future' = future @@ (flow.id :> [st |-> "resolving", flow |-> flow])
    /\ slot' = [slot EXCEPT ![i - 1] = NoMsg]
    /\ pc' = [pc EXCEPT ![i] = "enqueue"]
    /\ UNCHANGED <<conf, feed, fed, closes, wg, mainpc, proc, seen>>
    /\ UNCHANGED <<resQueue, fpc, fcur>>
    /\ UNCHANGED notRes

\* segment.ResolveQueue <- future (blocks while the queue is full)
ResolveIPsEnqueue(i) ==
    /\ Running /\ IsResolveIPs(conf[i]) /\ pc[i] = "enqueue"
    /\ Len(resQueue) < conf[i].QueueLength
    /\ resQueue' = Append(resQueue, hand[i].id)
    /\ hand' = [hand EXCEPT ![i] = NoMsg]
    /\ pc' = [pc EXCEPT ![i] = "range"]
    /\ UNCHANGED <<conf, feed, fed, slot, closes, rcvd, wg, mainpc, proc, seen>>
    /\ UNCHANGED <<future, fpc, fcur>>
    /\ UNCHANGED notRes

\* the resolver task of one future: the four lookups have returned or timed
\* out, wg.Wait() is over and the task offers the flow on fr.result
Resolve(id, answered) ==
    /\ Running /\ id \in DOMAIN future /\ future[id].st = "resolving"
    /\ future' = [future EXCEPT ![id] =
                     [st |-> "ready", flow |-> ResolveHostNames(@.flow, answered)]]
    /\ UNCHANGED pipeVars
    /\ UNCHANGED <<resQueue, fpc, fcur>>
    /\ UNCHANGED notRes

\* whether the forwarding task may take the next future: its previous
\* `segment.Out <- ...` has completed
ForwarderAtRange(i) == slot[i] = NoMsg

\* (mutant of OldestFuture: the forwarding task takes a future whose result
\* is ready, if there is one)
FirstReadyFuture(q) ==
    IF \E k \in DOMAIN q : future[q[k]].st = "ready"
    THEN CHOOSE k \in DOMAIN q :
            /\ future[q[k]].st = "ready"
            /\ \A l \in DOMAIN q : future[q[l]].st = "ready" => k <= l
    ELSE 1

\* the position in the ResolveQueue of the future a receive yields: a
\* channel hands out its elements in the order they were sent
OldestFuture(q) == 1

\* for flow := range segment.ResolveQueue
ForwarderTake(i) ==
    /\ Running /\ IsResolveIPs(conf[i]) /\ fpc = "range"
    /\ ForwarderAtRange(i)
    /\ resQueue # <<>>
    /\ fcur' = resQueue[OldestFuture(resQueue)]
    /\ resQueue' = SubSeq(resQueue, 1, OldestFuture(resQueue) - 1)
                      \o SubSeq(resQueue, OldestFuture(resQueue) + 1, Len(resQueue))
    /\ fpc' = "wait"
    /\ UNCHANGED pipeVars
    /\ UNCHANGED future
    /\ UNCHANGED notRes

\* segment.Out <- flow.WaitForResult(): the result is taken from the future
\* and sent; a send on a closed channel panics
ForwarderSend(i) ==
    /\ Running /\ IsResolveIPs(conf[i]) /\ fpc = "wait"
    /\ future[fcur].st = "ready"
    /\ future' = [future EXCEPT ![fcur].st = "taken"]
    /\ IF closes[i] > 0
       THEN /\ proc' = "panicked"
            /\ UNCHANGED slot
       ELSE /\ slot' = [slot EXCEPT ![i] = future[fcur].flow]
            /\ proc' = proc
    /\ fpc' = "range"
    /\ UNCHANGED <<conf, feed, fed, closes, pc, hand, rcvd, wg, mainpc, seen>>
    /\ UNCHANGED <<resQueue, fcur>>
    /\ UNCHANGED notRes

\* in is closed and drained: Run returns, the deferred close(segment.Out) and
\* wg.Done(); closing a channel a sender is parked on panics that sender
ResolveIPsReturn(i) ==
    /\ Running /\ IsResolveIPs(conf[i]) /\ pc[i] = "range"
    /\ slot[i - 1] = NoMsg /\ closes[i - 1] > 0
    /\ closes' = [closes EXCEPT ![i] = @ + 1]
    /\ wg' = WgAfterDone(wg)
    /\ proc' = IF slot[i] # NoMsg THEN "panicked" ELSE ProcAfterDone(wg)
    /\ pc' = [pc EXCEPT ![i] = "done"]
    /\ UNCHANGED <<conf, feed, fed, slot, hand, rcvd, mainpc, seen>>
    /\ UNCHANGED resVars
    /\ UNCHANGED notRes

-----------------------------------------------------------------------------
(* goflow *)

\* a listen URL: its scheme and its port, Absent when the port is no number
Url(scheme, port) == [Scheme |-> scheme, Port |-> port]

\* "sflow://:6343,netflow://:2055"
DefaultListen == <<Url("sflow", Opt(6343)), Url("netflow", Opt(2055))>>

\* what New returns when it rejects its configuration
NilSegment == [kind |-> "nil"]

\* the schemes New's switch accepts
NewSchemes == {"netflow", "sflow", "nfl"}

\* the schemes startGoFlow's switch builds a pipe for
PipeSchemes == {"netflow", "sflow", "flow"}

\* Goflow.New(config)
GoflowNew(config) ==
    LET listen == IF config.listen # Absent THEN config.listen[1] ELSE DefaultListen
        workers == IF config.workers # Absent /\ ~ParseError(config.workers)
                   THEN config.workers[1] ELSE 1
    IN  IF \E j \in DOMAIN listen :
              listen[j].Port = Absent \/ listen[j].Scheme \notin NewSchemes
        THEN NilSegment
        ELSE IF workers = 0
        THEN NilSegment
        ELSE [kind |-> "goflow", Listen |-> listen, Workers |-> workers]

IsGoflow(c) == c.kind = "goflow"

\* the listen URLs of the pipeline's goflow segment
ListenOf(c) ==
    IF \E i \in DOMAIN c : IsGoflow(c[i])
    THEN (c[CHOOSE i \in DOMAIN c : IsGoflow(c[i])]).Listen
    ELSE <<>>

Goflow == CHOOSE i \in Segs : IsGoflow(conf[i])

\* how many flows the transports deliver in a run
MaxCollected == 2

\* the k-th flow a listener decodes
CollectorRecord(k) == [InputRecord(k) EXCEPT !.id = 100 + k]

\* a nil *pb.EnrichedFlow
NilFlow == [id |-> -1]

SchemeFatal == "fatal: scheme does not exist"

ReceiverFatal == "fatal: [error] Goflow: receiver start"

\* segment.goflow_in = make(...); segment.startGoFlow(...): one task per
\* listen URL is started, Run reaches its select
GoflowStart(i) ==
    /\ Running /\ IsGoflow(conf[i]) /\ pc[i] = "run"
    /\ lst' = [j \in DOMAIN lst |-> "starting"]
    /\ pc' = [pc EXCEPT ![i] = "select"]
    /\ UNCHANGED <<conf, feed, fed, slot, closes, hand, rcvd, wg, mainpc, proc, seen>>
    /\ UNCHANGED <<gin, ginClosed, ginNil, gsent, collected>>
    /\ UNCHANGED notGoflow

\* the task of listen URL j: the switch on the scheme, then recv.Start, which
\* fails when bound is FALSE
ListenerStart(j, bound) ==
    /\ Running /\ lst[j] = "starting"
    /\ IF conf[Goflow].Listen[j].Scheme \notin PipeSchemes
       THEN /\ proc' = SchemeFatal
            /\ UNCHANGED lst
       ELSE IF ~bound
       THEN /\ proc' = ReceiverFatal
            /\ UNCHANGED lst
       ELSE /\ lst' = [lst EXCEPT ![j] = "listening"]
            /\ proc' = proc
    /\ UNCHANGED <<conf, feed, fed, slot, closes, pc, hand, rcvd, wg, mainpc, seen>>
    /\ UNCHANGED <<gin, ginClosed, ginNil, gsent, collected>>
    /\ UNCHANGED notGoflow

\* channelDriver.Send(key, data): d.out <- &msg.EnrichedFlow; a send on a
\* closed channel panics
ChannelDriverSend ==
    /\ Running /\ \E j \in DOMAIN lst : lst[j] = "listening"
    /\ gsent < MaxCollected
    /\ gin = NoMsg
    /\ gsent' = gsent + 1
    /\ IF ginClosed > 0
       THEN /\ proc' = "panicked"
            /\ UNCHANGED gin
       ELSE /\ gin' = CollectorRecord(gsent + 1)
            /\ proc' = proc
    /\ UNCHANGED <<conf, feed, fed, slot, closes, pc, hand, rcvd, wg, mainpc, seen>>
    /\ UNCHANGED <<lst, ginClosed, ginNil, collected>>
    /\ UNCHANGED notGoflow

\* channelDriver.Close(ctx): close(d.out); closing a closed channel, or one
\* a sender is parked on, panics
ChannelDriverClose ==
    /\ Running /\ \E j \in DOMAIN lst : lst[j] = "listening"
    /\ ginClosed' = ginClosed + 1
    /\ proc' = IF ginClosed > 0 \/ gin # NoMsg THEN "panicked" ELSE proc
    /\ UNCHANGED <<conf, feed, fed, slot, closes, pc, hand, rcvd, wg, mainpc, seen>>
    /\ UNCHANGED <<lst, gin, ginNil, gsent, collected>>
    /\ UNCHANGED notGoflow

\* (mutant of GoflowAtSelect: Run selects again before its send on Out has
\* completed)
GoflowSelectsEarly(i) == pc[i] = "select"

\* whether Run is at its select: the previous `segment.Out <- msg` has
\* completed
GoflowAtSelect(i) == pc[i] = "select" /\ slot[i] = NoMsg

\* case msg, ok := <-segment.goflow_in with ok: segment.Out <- msg
GoflowRecvCollector(i) ==
    /\ Running /\ IsGoflow(conf[i]) /\ GoflowAtSelect(i)
    /\ ~ginNil /\ gin # NoMsg
    /\ collected' = Append(collected, gin)
    /\ slot' = [slot EXCEPT ![i] = gin]
    /\ gin' = NoMsg
    /\ UNCHANGED <<conf, feed, fed, closes, pc, hand, rcvd, wg, mainpc, proc, seen>>
    /\ UNCHANGED <<lst, ginClosed, ginNil, gsent>>
    /\ UNCHANGED notGoflow

\* case msg, ok := <-segment.goflow_in with !ok: segment.goflow_in = nil and
\* segment.Out <- msg, where msg is nil
GoflowCollectorClosed(i) ==
    /\ Running /\ IsGoflow(conf[i]) /\ GoflowAtSelect(i)
    /\ ~ginNil /\ gin = NoMsg /\ ginClosed > 0
    /\ ginNil' = TRUE
    /\ slot' = [slot EXCEPT ![i] = NilFlow]
    /\ UNCHANGED <<conf, feed, fed, closes, pc, hand, rcvd, wg, mainpc, proc, seen>>
    /\ UNCHANGED <<lst, gin, ginClosed, gsent, collected>>
    /\ UNCHANGED notGoflow

\* case msg, ok := <-segment.In with ok: segment.Out <- msg
GoflowRecvIn(i) ==
    /\ Running /\ IsGoflow(conf[i]) /\ GoflowAtSelect(i)
    /\ slot[i - 1] # NoMsg
    /\ rcvd' = [rcvd EXCEPT ![i] = Append(@, slot[i - 1])]
    /\ slot' = [slot EXCEPT ![i - 1] = NoMsg, ![i] = slot[i - 1]]
    /\ UNCHANGED <<conf, feed, fed, closes, pc, hand, wg, mainpc, proc, seen>>
    /\ UNCHANGED gfVars
    /\ UNCHANGED notGoflow

\* case msg, ok := <-segment.In with !ok: return, the deferred
\* close(segment.Out) and wg.Done()
GoflowReturn(i) ==
    /\ Running /\ IsGoflow(conf[i]) /\ GoflowAtSelect(i)
    /\ slot[i - 1] = NoMsg /\ closes[i - 1] > 0
    /\ closes' = [closes EXCEPT ![i] = @ + 1]
    /\ wg' = WgAfterDone(wg)
    /\ proc' = ProcAfterDone(wg)
    /\ pc' = [pc EXCEPT ![i] = "done"]
    /\ UNCHANGED <<conf, feed, fed, slot, hand, rcvd, mainpc, seen>>
    /\ UNCHANGED gfVars
    /\ UNCHANGED notGoflow

-----------------------------------------------------------------------------
(* The segment registry and New *)

\* the unit of the durations of the model is the millisecond
Second == 1000

Minute == 60 * Second

defaultTimeout == 5 * Second

minimalBatchTimeout == 50

\* the names the init functions register, in the order of their prototypes
\* in the heap: segments.RegisterSegment(name, &Kind{})
Registry == <<"lumberjack", "resolveips", "goflow", "protomap", "addrstrings">>

\* segments.LookupSegment(name): the address of the registered prototype
LookupSegment(name) == CHOOSE a \in DOMAIN Registry : Registry[a] = name

\* the nil pointer
Nil == 0

\* &Lumberjack{}, &ResolveIPs{}, &Goflow{}, &Protomap{}, &AddrStrings{}: the
\* zero values the init functions register
Prototypes ==
    <<[kind |-> "lumberjack", Servers |-> <<>>, BatchSize |-> 0,
       BatchTimeout |-> 0, BatchDebugPrintf |-> "nil", QueueCap |-> 0,
       LumberjackOut |-> Nil],
      [kind |-> "resolveips", QueueLength |-> 0],
      [kind |-> "goflow", Listen |-> <<>>, Workers |-> 0],
      [kind |-> "protomap"],
      [kind |-> "addrstrings", Separator |-> "colon"]>>

\* (mutant of NewBatchTimeout: the bounds themselves are replaced as well)
NewBatchTimeoutOpenRange(batchtimeout) ==
    LET parsed == IF batchtimeout # Absent THEN batchtimeout[1] ELSE defaultTimeout
        floored == IF parsed <= minimalBatchTimeout THEN defaultTimeout ELSE parsed
    IN  IF floored >= Minute THEN defaultTimeout ELSE floored

\* the part of Lumberjack.New that parses the batchtimeout option
NewBatchTimeout(batchtimeout) ==
    LET parsed == IF batchtimeout # Absent THEN batchtimeout[1] ELSE defaultTimeout
        floored == IF parsed < minimalBatchTimeout THEN defaultTimeout ELSE parsed
    IN  IF floored > Minute THEN defaultTimeout ELSE floored

\* the schemes of a server URL Lumberjack.New's switch accepts
LumberjackSchemes == {"tcp", "tls", "tlsnoverify"}

\* a compression level New ends the process for: no number, or outside 0..9
CompressionFatal(compression) ==
    /\ compression # Absent
    /\ \/ ParseError(compression)
       \/ compression[1] < 0
       \/ compression[1] > 9

\* whether Lumberjack.New reaches one of its log.Fatal() calls.  An empty
\* servers option is one URL with the empty scheme.
LumberjackNewFatal(config) ==
    \/ CompressionFatal(config.compression)
    \/ config.servers = <<>>
    \/ \E j \in DOMAIN config.servers :
          \/ ~config.servers[j].parses
          \/ config.servers[j].scheme \notin LumberjackSchemes
          \/ CompressionFatal(config.servers[j].compression)
          \/ ParseError(config.servers[j].count)
    \/ ParseError(config.batchsize)
    \/ ParseError(config.batchtimeout)
    \/ ParseError(config.batchdebug)
    \/ ParseError(config.reconnectwait)
    \/ ParseError(config.queuestatusinterval)
    \/ ParseError(config.queuesize)

\* log.Fatal() of Lumberjack.New
ConfigFatal == "fatal: Lumberjack: Failed to parse config option"

\* the fields of the receiver when Lumberjack.New(config) returns: every
\* field is assigned but BatchDebugPrintf, which keeps the receiver's value
\* when the option is absent; out is the channel of make(chan, bufferLength)
LumberjackNewOn(segment, config, out) ==
    [kind |-> "lumberjack",
     Servers |-> LumberjackNew(config).Servers,
     BatchSize |-> NewBatchSize(config.batchsize),
     BatchTimeout |-> NewBatchTimeout(config.batchtimeout),
     BatchDebugPrintf |-> IF config.batchdebug # Absent
                          THEN NewBatchDebugPrintf(config.batchdebug)
                          ELSE segment.BatchDebugPrintf,
     QueueCap |-> bufferLength(config.queuesize),
     LumberjackOut |-> out]

\* the call of New the builder makes for one entry of the configuration
Call(name, config, result, segment) ==
    [name |-> name, config |-> config, result |-> result, segment |-> segment]

\* the channel a make() of the next call of New creates
NewChan == Len(built) + 1

\* LookupSegment("lumberjack").New(config): the method has a pointer
\* receiver, writes the options to the receiver and returns the receiver
BuildLumberjack(config) ==
    /\ Running /\ Len(built) < MaxBuilt
    /\ IF LumberjackNewFatal(config)
       THEN /\ proc' = ConfigFatal
            /\ built' = Append(built, Call("lumberjack", config, "fatal", Nil))
            /\ heap' = heap
       ELSE /\ proc' = proc
            /\ heap' = [heap EXCEPT ![LookupSegment("lumberjack")] =
                           LumberjackNewOn(@, config, NewChan)]
            /\ built' = Append(built, Call("lumberjack", config, "instance",
                                           LookupSegment("lumberjack")))
    /\ UNCHANGED <<conf, feed, fed, slot, closes, pc, hand, rcvd, wg, mainpc, seen>>
    /\ UNCHANGED <<ljVars, resVars, gfVars, rcbVars, ecsVars>>

\* a New that returns the address of a new object
BuildFresh(name, config, object) ==
    /\ Running /\ Len(built) < MaxBuilt
    /\ IF object = NilSegment
       THEN /\ heap' = heap
            /\ built' = Append(built, Call(name, config, "nil", Nil))
       ELSE /\ heap' = Append(heap, object)
            /\ built' = Append(built, Call(name, config, "instance", Len(heap) + 1))
    /\ UNCHANGED pipeVars
    /\ UNCHANGED <<ljVars, resVars, gfVars, rcbVars, ecsVars>>

\* LookupSegment("resolveips").New(config): var NewSegment = ResolveIPs{};
\* return &NewSegment
BuildResolveIPs(config) == BuildFresh("resolveips", config, ResolveIPsNew(config))

\* LookupSegment("goflow").New(config): value receiver, return &Goflow{...}
\* or nil
BuildGoflow(config) == BuildFresh("goflow", config, GoflowNew(config))

\* LookupSegment("protomap").New(config): return &Protomap{}
BuildProtomap == BuildFresh("protomap", Absent, ProtomapNew)

\* LookupSegment("addrstrings").New(config): return &AddrStrings{...}
BuildAddrStrings(macseparator) ==
    BuildFresh("addrstrings", macseparator, AddrStringsNew(macseparator))

-----------------------------------------------------------------------------
(* goflow: ReceiverCallback *)

\* the tasks of the UDP receiver that report dropped packets
Callers == 1..NCallers

\* rcb.DroppedPackets++ is a load, an addition and a store of the field
\* without synchronisation: the store writes the loaded value plus one
IncrementStores(c) == loaded[c] + 1

\* Dropped is called: the load of rcb.DroppedPackets++
DroppedLoad(c) ==
    /\ Running /\ dpc[c] = "idle"
    /\ dropped < MaxDropped
    /\ dropped' = dropped + 1
    /\ loaded' = [loaded EXCEPT ![c] = DroppedPackets]
    /\ dpc' = [dpc EXCEPT ![c] = "store"]
    /\ UNCHANGED <<DroppedPackets, CurrentTimer, pending, timers>>
    /\ UNCHANGED pipeVars
    /\ UNCHANGED <<ljVars, resVars, gfVars, regVars, ecsVars>>

\* the store of rcb.DroppedPackets++
DroppedStore(c) ==
    /\ Running /\ dpc[c] = "store"
    /\ DroppedPackets' = IncrementStores(c)
    /\ dpc' = [dpc EXCEPT ![c] = "check"]
    /\ UNCHANGED <<CurrentTimer, pending, loaded, dropped, timers>>
    /\ UNCHANGED pipeVars
    /\ UNCHANGED <<ljVars, resVars, gfVars, regVars, ecsVars>>

\* if rcb.CurrentTimer == nil
DroppedCheck(c) ==
    /\ Running /\ dpc[c] = "check"
    /\ dpc' = [dpc EXCEPT ![c] = IF CurrentTimer = Nil THEN "arm" ELSE "idle"]
    /\ UNCHANGED <<DroppedPackets, CurrentTimer, pending, loaded, dropped, timers>>
    /\ UNCHANGED pipeVars
    /\ UNCHANGED <<ljVars, resVars, gfVars, regVars, ecsVars>>

\* rcb.CurrentTimer = time.AfterFunc(oneSecond, func() {...})
DroppedArm(c) ==
    /\ Running /\ dpc[c] = "arm"
    /\ timers' = timers + 1
    /\ pending' = pending \cup {timers + 1}
    /\ CurrentTimer' = timers + 1
    /\ dpc' = [dpc EXCEPT ![c] = "idle"]
    /\ UNCHANGED <<DroppedPackets, loaded, dropped>>
    /\ UNCHANGED pipeVars
    /\ UNCHANGED <<ljVars, resVars, gfVars, regVars, ecsVars>>

\* a second later the timer's function runs: log.Printf(...,
\* rcb.DroppedPackets); rcb.CurrentTimer = nil
TimerFunc(t) ==
    /\ Running /\ t \in pending
    /\ pending' = pending \ {t}
    /\ CurrentTimer' = Nil
    /\ UNCHANGED <<DroppedPackets, dpc, loaded, dropped, timers>>
    /\ UNCHANGED pipeVars
    /\ UNCHANGED <<ljVars, resVars, gfVars, regVars, ecsVars>>

-----------------------------------------------------------------------------
(* The ECS mapping on its own *)

\* time passes
Tick ==
    /\ Running /\ now < MaxNow
    /\ now' = now + 1
    /\ UNCHANGED converted
    /\ UNCHANGED pipeVars
    /\ UNCHANGED <<ljVars, resVars, gfVars, regVars, rcbVars>>

\* worker w calls ECSFromEnrichedFlow(flow); the lookup of the transport
\* name indexes the IANA table
Convert(w, flow) ==
    /\ Running /\ Len(converted) < MaxConverted
    /\ IF IanaProtocolNumberToLowercaseName(flow.Proto) = IndexOutOfRange
       THEN /\ proc' = "panicked"
            /\ converted' = converted
       ELSE /\ proc' = proc
            /\ converted' = Append(converted,
                                   [worker |-> w, flow |-> flow, at |-> now,
                                    doc |-> ElasticCommonSchema(flow, now)])
    /\ UNCHANGED now
    /\ UNCHANGED <<conf, feed, fed, slot, closes, pc, hand, rcvd, wg, mainpc, seen>>
    /\ UNCHANGED <<ljVars, resVars, gfVars, regVars, rcbVars>>

-----------------------------------------------------------------------------
(* Filter segments: flowfilter and elephant *)

\* FlowFilter.New for the filter expression "proto <n>"
FlowFilterNew(proto) == [kind |-> "flowfilter", filter |-> proto]

\* Elephant.New: no options
ElephantNew == [kind |-> "elephant"]

IsFilter(c) == c.kind \in {"flowfilter", "elephant"}

\* whether the segment's predicate admits msg, received after the records
\* before: flowfilter evaluates its expression on msg, elephant compares the
\* bytes of msg with those of the records it has seen
Matches(c, msg, before) ==
    CASE c.kind = "flowfilter" -> msg.Proto = c.filter
      [] c.kind = "elephant" -> \A k \in DOMAIN before : before[k].Bytes <= msg.Bytes

\* (mutant of Forwarded: the record is forwarded whatever the predicate says)
ForwardedAlways(msg, matches) == msg

\* what the loop sends on out for msg: msg itself when it matches, nothing
\* when it does not
Forwarded(msg, matches) == IF matches THEN msg ELSE NoMsg

\* for msg := range segment.In { if <msg matches> { segment.Out <- msg } }
FilterRun(i) ==
    /\ Running /\ IsFilter(conf[i]) /\ pc[i] = "run"
    /\ slot[i] = NoMsg
    /\ slot[i - 1] # NoMsg
    /\ LET msg == slot[i - 1]
       IN  /\ rcvd' = [rcvd EXCEPT ![i] = Append(@, msg)]
           /\ slot' = [slot EXCEPT ![i - 1] = NoMsg,
                                   ![i] = Forwarded(msg, Matches(conf[i], msg, rcvd[i]))]
    /\ UNCHANGED <<conf, feed, fed, closes, pc, hand, wg, mainpc, proc, seen>>
    /\ UNCHANGED segVars

\* in is closed and drained: the deferred close(segment.Out); wg.Done()
FilterReturn(i) ==
    /\ Running /\ IsFilter(conf[i]) /\ pc[i] = "run"
    /\ slot[i] = NoMsg
    /\ slot[i - 1] = NoMsg /\ closes[i - 1] > 0
    /\ closes' = [closes EXCEPT ![i] = @ + 1]
    /\ wg' = WgAfterDone(wg)
    /\ proc' = ProcAfterDone(wg)
    /\ pc' = [pc EXCEPT ![i] = "done"]
    /\ UNCHANGED <<conf, feed, fed, slot, hand, rcvd, mainpc, seen>>
    /\ UNCHANGED segVars

-----------------------------------------------------------------------------
(* main() before the pipeline runs *)

\* log.Fatal of NewFromConfig for a segment name the registry does not hold
NameFatal == "fatal: [error] Configured segment could not be found"

\* an entry of the configuration whose segment name is not registered
UnknownSegment == [kind |-> "unknown"]

\* plugin.Open(path) for the plugins named on the command line: on an error
\* main logs it and returns
PluginOpen(ok) ==
    /\ Running /\ mainpc = "main"
    /\ IF ok
       THEN mainpc' = "plugins" /\ proc' = proc
       ELSE mainpc' = "plugin failed" /\ proc' = "exited"
    /\ UNCHANGED <<conf, feed, fed, slot, closes, pc, hand, rcvd, wg, seen>>
    /\ UNCHANGED segVars

\* os.ReadFile(*configfile): on an error main logs it and returns
ReadFile(ok) ==
    /\ Running /\ mainpc = "plugins"
    /\ IF ok
       THEN mainpc' = "config" /\ proc' = proc
       ELSE mainpc' = "config unreadable" /\ proc' = "exited"
    /\ UNCHANGED <<conf, feed, fed, slot, closes, pc, hand, rcvd, wg, seen>>
    /\ UNCHANGED segVars

\* pipeline.NewFromConfig(config): every entry is looked up and built with
\* New; conf holds what the entries describe
NewFromConfig ==
    /\ Running /\ mainpc = "config"
    /\ IF \E i \in Segs : conf[i] = UnknownSegment
       THEN mainpc' = "build failed" /\ proc' = NameFatal
       ELSE IF \E i \in Segs : IsLumberjack(conf[i]) /\ LumberjackNewFatal(conf[i].config)
       THEN mainpc' = "build failed" /\ proc' = ConfigFatal
       ELSE mainpc' = "new" /\ proc' = proc
    /\ UNCHANGED <<conf, feed, fed, slot, closes, pc, hand, rcvd, wg, seen>>
    /\ UNCHANGED segVars

\* the exit code of the process once it has ended: 0 when main returned, 1
\* after log.Fatal (os.Exit(1)), 2 after a panic
ExitCode ==
    CASE proc = "exited" -> 0
      [] proc = "panicked" -> 2
      [] OTHER -> 1

-----------------------------------------------------------------------------
(* Specifications *)

\* the state NewFromConfig leaves for the instances c and the input stream s
InitProcess(c, s, at) ==
    /\ conf = c
    /\ feed = s
    /\ fed = <<>>
    /\ slot = [ch \in 0..Len(c) |-> NoMsg]
    /\ closes = [ch \in 0..Len(c) |-> 0]
    /\ pc = [i \in 1..Len(c) |-> "idle"]
    /\ hand = [i \in 1..Len(c) |-> NoMsg]
    /\ rcvd = [i \in 1..Len(c) |-> <<>>]
    /\ wg = 0
    /\ mainpc = at
    /\ proc = "running"
    /\ seen = <<>>
    /\ queue = <<>>
    /\ queueClosed = FALSE
    /\ enq = <<>>
    /\ writerWG = 0
    /\ wpc = [w \in WorkersOf(c) |-> "idle"]
    /\ buf = [w \in WorkersOf(c) |-> <<>>]
    /\ timerSet = [w \in WorkersOf(c) |-> FALSE]
    /\ tm = [w \in WorkersOf(c) |-> "stopped"]
    /\ conn = [w \in WorkersOf(c) |-> "Connecting"]
    /\ serverUp \in [ServersOf(c) -> BOOLEAN]
    /\ deq = [w \in WorkersOf(c) |-> <<>>]
    /\ sendlog = [w \in WorkersOf(c) |-> <<>>]
    /\ delivered = [w \in WorkersOf(c) |-> <<>>]
    /\ resQueue = <<>>
    /\ future = <<>>
    /\ fpc = "idle"
    /\ fcur = 0
    /\ lst = [j \in DOMAIN ListenOf(c) |-> "idle"]
    /\ gin = NoMsg
    /\ ginClosed = 0
    /\ ginNil = FALSE
    /\ gsent = 0
    /\ collected = <<>>
    /\ heap = Prototypes
    /\ built = <<>>
    /\ DroppedPackets = 0
    /\ CurrentTimer = Nil
    /\ pending = {}
    /\ dpc = [caller \in Callers |-> "idle"]
    /\ loaded = [caller \in Callers |-> 0]
    /\ dropped = 0
    /\ timers = 0
    /\ now = 0
    /\ converted = <<>>

\* the state NewFromConfig leaves for the instances c and the input stream s
InitPipeline(c, s) == InitProcess(c, s, "new")

SeqsUpTo(S, n) == UNION {[1..m -> S] : m \in 1..n}

Transformers == {ProtomapNew, AddrStringsNew(""), AddrStringsNew("dash")}

\* pipelines of protomap and addrstrings segments
InitPipe ==
    \E c \in SeqsUpTo(Transformers, MaxSegs), n \in 0..NRec :
        InitPipeline(c, Stream(n))

MainNext == Start \/ AutoDrain \/ Drain \/ Feed \/ Close \/ CloseReturn

ProtomapNext == \E i \in Segs : ProtomapRun(i) \/ ProtomapReturn(i)

AddrStringsNext == \E i \in Segs : AddrStringsRun(i) \/ AddrStringsReturn(i)

TransformerNext == ProtomapNext \/ AddrStringsNext

NextPipe == MainNext \/ TransformerNext

SpecPipe == InitPipe /\ [][NextPipe]_vars

\* configurations of the Lumberjack segment
Server1 == [host |-> "s1", count |-> Absent]

Server2 == [host |-> "s2", count |-> Absent]

LumberjackConfigs ==
    {[servers |-> <<Server1>>, batchsize |-> Opt(2), batchdebug |-> Opt(FALSE),
      queuesize |-> Absent],
     [servers |-> <<Server1>>, batchsize |-> Opt(2), batchdebug |-> Absent,
      queuesize |-> Absent],
     [servers |-> <<Server1, Server2>>, batchsize |-> Opt(2), batchdebug |-> Opt(TRUE),
      queuesize |-> Opt(10)],
     [servers |-> <<Server1>>, batchsize |-> Opt(1), batchdebug |-> Opt(TRUE),
      queuesize |-> Absent],
     [servers |-> <<[host |-> "s1", count |-> Opt(2)]>>, batchsize |-> Opt(2),
      batchdebug |-> Opt(FALSE), queuesize |-> Absent],
     [servers |-> <<Server1>>, batchsize |-> Opt(0), batchdebug |-> Opt(FALSE),
      queuesize |-> Absent]}

\* a pipeline that consists of one Lumberjack segment
InitLJ ==
    \E config \in LumberjackConfigs, n \in 0..NRec :
        InitPipeline(<<LumberjackNew(config)>>, Stream(n))

LumberjackNext ==
    \E i \in Segs :
        \/ LumberjackSpawn(i) \/ LumberjackReceive(i) \/ LumberjackEnqueue(i)
        \/ LumberjackLoopExit(i) \/ LumberjackDeferClose(i) \/ LumberjackDeferDone(i)

WorkerNext ==
    \E w \in Workers :
        \/ WorkerStart(w) \/ TimerFire(w) \/ WorkerDequeue(w) \/ WorkerTimer(w)
        \/ SendConnect(w) \/ SendBackoff(w) \/ SendTransmit(w) \/ SendAbort(w)
        \/ WorkerFinal(w) \/ WorkerBarrierDone(w) \/ WorkerReturn(w)

NetworkNext == \E s \in DOMAIN serverUp : ServerChange(s)

NextLJ == MainNext \/ LumberjackNext \/ WorkerNext \/ NetworkNext

SpecLJ == InitLJ /\ [][NextLJ]_vars

\* a Lumberjack segment with one server and count absent, 0 or 2, followed
\* by two transformers
CountConfigs ==
    {[servers |-> <<[host |-> "s1", count |-> c]>>, batchsize |-> Opt(1),
      batchdebug |-> Opt(FALSE), queuesize |-> Absent] : c \in {Absent, Opt(0), Opt(2)}}

InitLJCount ==
    \E config \in CountConfigs, n \in 0..1 :
        InitPipeline(<<LumberjackNew(config), ProtomapNew, AddrStringsNew("")>>, Stream(n))

NextLJCount ==
    \/ MainNext
    \/ ProtomapNext \/ AddrStringsNext
    \/ LumberjackNext \/ WorkerNext \/ NetworkNext

SpecLJCount == InitLJCount /\ [][NextLJCount]_vars

\* one server that stays reachable, one worker, batchsize 3, with and without
\* batchdebug; seven records
InitLJBatch ==
    /\ \E dbg \in {Absent, Opt(FALSE)} :
          InitPipeline(<<LumberjackNew([servers |-> <<Server1>>, batchsize |-> Opt(3),
                                       batchdebug |-> dbg, queuesize |-> Absent])>>,
                       Stream(7))
    /\ \A s \in DOMAIN serverUp : serverUp[s]

\* (client.Send succeeds at its first attempt while the server is reachable)
BatchWorkerNext ==
    \E w \in Workers :
        \/ WorkerStart(w) \/ TimerFire(w) \/ WorkerDequeue(w) \/ WorkerTimer(w)
        \/ SendConnect(w) \/ SendTransmit(w)
        \/ WorkerFinal(w) \/ WorkerBarrierDone(w) \/ WorkerReturn(w)

NextLJBatch == MainNext \/ LumberjackNext \/ BatchWorkerNext

SpecLJBatch == InitLJBatch /\ [][NextLJBatch]_vars

\* the scheduler runs every goroutine of the segment that can take a step,
\* the reader of the last out keeps receiving, and a worker's select takes
\* its queue case when that stays ready; nothing is assumed of the network
\* or of the timers
FairLJ ==
    /\ WF_vars(Drain)
    /\ WF_vars(LumberjackNext)
    /\ WF_vars(\E w \in Workers :
                  \/ WorkerStart(w) \/ WorkerDequeue(w)
                  \/ SendConnect(w) \/ SendTransmit(w) \/ SendAbort(w)
                  \/ WorkerFinal(w) \/ WorkerBarrierDone(w) \/ WorkerReturn(w))

SpecLJFair == InitLJ /\ [][NextLJ]_vars /\ FairLJ

\* the smallest queue size New accepts, and a stream that fills it: one record
\* with the worker, QueueFloor in the queue, one in Run's hand, one parked
QueueFloor == 64

QueueRecs == 67

QueueConfig(queuesize) ==
    [servers |-> <<Server1>>, batchsize |-> Opt(1), batchdebug |-> Opt(FALSE),
     queuesize |-> queuesize]

\* one Lumberjack segment whose server is unreachable for the whole run, so
\* that its worker is held in client.Send: a long stream for the smallest
\* queue, short streams for the other queue sizes
InitLJQueue ==
    /\ \/ InitPipeline(<<LumberjackNew(QueueConfig(Opt(QueueFloor)))>>, Stream(QueueRecs))
       \/ \E qs \in {Absent, Opt(0), Opt(QueueFloor - 1), Opt(QueueFloor + 1)},
             n \in 0..NRec :
              InitPipeline(<<LumberjackNew(QueueConfig(qs))>>, Stream(n))
    /\ \A s \in DOMAIN serverUp : ~serverUp[s]

\* (client.Send never reaches Streaming while the server is unreachable)
QueueWorkerNext ==
    \E w \in Workers :
        \/ WorkerStart(w) \/ TimerFire(w) \/ WorkerDequeue(w) \/ WorkerTimer(w)
        \/ SendConnect(w) \/ SendBackoff(w) \/ SendAbort(w)
        \/ WorkerFinal(w) \/ WorkerBarrierDone(w) \/ WorkerReturn(w)

NextLJQueue == MainNext \/ LumberjackNext \/ QueueWorkerNext

SpecLJQueue == InitLJQueue /\ [][NextLJQueue]_vars

\* the network of the backlog scenario: an unreachable server becomes
\* reachable once the stream has been fed or the queue is full
ServerBecomesReachable(s) ==
    /\ ~serverUp[s]
    /\ feed = <<>> \/ Len(queue) = conf[LJ].QueueCap
    /\ ServerChange(s)

\* one Lumberjack segment whose server is unreachable at first: a long
\* stream for the smallest queue and batches of one record, short streams
\* for batches of two records
InitLJBacklog ==
    /\ \/ InitPipeline(<<LumberjackNew(QueueConfig(Opt(QueueFloor)))>>, Stream(QueueRecs))
       \/ \E n \in 0..NRec :
              InitPipeline(<<LumberjackNew([servers |-> <<Server1>>, batchsize |-> Opt(2),
                                           batchdebug |-> Opt(FALSE),
                                           queuesize |-> Absent])>>, Stream(n))
    /\ \A s \in DOMAIN serverUp : ~serverUp[s]

BacklogNetworkNext == \E s \in DOMAIN serverUp : ServerBecomesReachable(s)

NextLJBacklog == MainNext \/ LumberjackNext \/ WorkerNext \/ BacklogNetworkNext

SpecLJBacklog == InitLJBacklog /\ [][NextLJBacklog]_vars

\* one resolveips segment, alone or behind addrstrings
ResolveIPsConfigs == {[queuelength |-> Absent], [queuelength |-> Opt(1)]}

InitRes ==
    \E config \in ResolveIPsConfigs, n \in 0..NRec :
        \/ InitPipeline(<<ResolveIPsNew(config)>>, Stream(n))
        \/ InitPipeline(<<AddrStringsNew(""), ResolveIPsNew(config)>>, Stream(n))

ResolveIPsNext ==
    \E i \in Segs :
        \/ ResolveIPsSpawn(i) \/ ResolveIPsReceive(i) \/ ResolveIPsEnqueue(i)
        \/ ForwarderTake(i) \/ ForwarderSend(i) \/ ResolveIPsReturn(i)

ResolverNext == \E id \in DOMAIN future, answered \in SUBSET LookupFields : Resolve(id, answered)

NextRes == MainNext \/ AddrStringsNext \/ ResolveIPsNext \/ ResolverNext

SpecRes == InitRes /\ [][NextRes]_vars

\* the goflow configurations of the model for which New returns an instance
GoflowConfigs ==
    {config \in [listen : {Absent, Opt(<<Url("nfl", Opt(2055))>>),
                           Opt(<<Url("flow", Opt(2055))>>),
                           Opt(<<Url("netflow", Absent)>>)},
                 workers : {Absent, Opt(0)}] :
        GoflowNew(config) # NilSegment}

GoflowNext ==
    \E i \in Segs :
        \/ GoflowStart(i) \/ GoflowRecvCollector(i)
        \/ GoflowRecvIn(i) \/ GoflowReturn(i)

ListenerNext == \E j \in DOMAIN lst, bound \in BOOLEAN : ListenerStart(j, bound)

\* the transports deliver flows; nothing in the program closes a transport
TransportNext == ChannelDriverSend

\* a transport that is closed all the same, and Run's branch for it
TransportCloseNext ==
    ChannelDriverClose \/ \E i \in Segs : GoflowCollectorClosed(i)

\* one segment of each of the kinds with a single out, ingress and reader
\* attached
InitRun ==
    \E n \in 0..NRec :
        \/ \E c \in Transformers : InitPipeline(<<c>>, Stream(n))
        \/ \E config \in ResolveIPsConfigs : InitPipeline(<<ResolveIPsNew(config)>>, Stream(n))
        \/ \E config \in GoflowConfigs : InitPipeline(<<GoflowNew(config)>>, Stream(n))

NextRun ==
    \/ MainNext
    \/ ProtomapNext \/ AddrStringsNext
    \/ ResolveIPsNext \/ ResolverNext
    \/ GoflowNext \/ ListenerNext \/ TransportNext

\* every task of the program and the reader of the last out keep running;
\* the producer of the ingress, the signal that makes main call Close and the
\* network are free
FairRun ==
    /\ WF_vars(Drain) /\ WF_vars(CloseReturn)
    /\ WF_vars(ProtomapNext) /\ WF_vars(AddrStringsNext)
    /\ WF_vars(\E i \in Segs : ResolveIPsSpawn(i) \/ ResolveIPsReceive(i)
                                 \/ ResolveIPsEnqueue(i) \/ ResolveIPsReturn(i))
    /\ WF_vars(\E i \in Segs : ForwarderTake(i) \/ ForwarderSend(i))
    /\ WF_vars(ResolverNext)
    /\ WF_vars(GoflowNext) /\ WF_vars(ListenerNext)

SpecRun == InitRun /\ [][NextRun]_vars /\ FairRun

\* one goflow segment whose transport may be closed
InitGoflow ==
    \E config \in GoflowConfigs, n \in 0..NRec :
        InitPipeline(<<GoflowNew(config)>>, Stream(n))

NextGoflow ==
    MainNext \/ GoflowNext \/ ListenerNext \/ TransportNext \/ TransportCloseNext

SpecGoflow == InitGoflow /\ [][NextGoflow]_vars

\* linear pipelines that mix the kinds of segment
MixConfig == [servers |-> <<Server1>>, batchsize |-> Opt(2), batchdebug |-> Opt(FALSE),
              queuesize |-> Absent]

MixPipelines ==
    {<<ProtomapNew, ResolveIPsNew([queuelength |-> Absent])>>,
     <<AddrStringsNew(""), LumberjackNew(MixConfig)>>,
     <<LumberjackNew(MixConfig), ProtomapNew>>,
     <<ResolveIPsNew([queuelength |-> Absent]), LumberjackNew(MixConfig)>>}

InitMix == \E c \in MixPipelines, n \in 0..NRec : InitPipeline(c, Stream(n))

NextMix ==
    \/ MainNext
    \/ ProtomapNext \/ AddrStringsNext
    \/ ResolveIPsNext \/ ResolverNext
    \/ LumberjackNext \/ WorkerNext \/ NetworkNext

SpecMix == InitMix /\ [][NextMix]_vars

\* the builder alone: up to MaxBuilt entries of a configuration are looked up
\* and built with New
LumberjackServer(scheme, host, compression, count) ==
    [scheme |-> scheme, host |-> host, parses |-> TRUE,
     compression |-> compression, count |-> count]

\* servers: tcp://a, every other option absent
BaseConfig ==
    [compression |-> Absent,
     servers |-> <<LumberjackServer("tcp", "a", Absent, Absent)>>,
     batchsize |-> Absent, batchtimeout |-> Absent, batchdebug |-> Absent,
     reconnectwait |-> Absent, queuestatusinterval |-> Absent,
     queuesize |-> Absent]

\* the base configuration with one option set to a valid, a boundary or an
\* invalid value
LumberjackNewConfigs ==
    {BaseConfig}
    \cup {[BaseConfig EXCEPT !.compression = v] :
             v \in {Opt(0), Opt(9), Opt(10), Opt(-1), Unparseable}}
    \cup {[BaseConfig EXCEPT !.servers = v] :
             v \in {<<>>,
                    <<LumberjackServer("tls", "b", Opt(9), Opt(2)),
                      LumberjackServer("tcp", "c", Absent, Opt(0))>>,
                    <<LumberjackServer("udp", "a", Absent, Absent)>>,
                    <<[LumberjackServer("tcp", "a", Absent, Absent)
                          EXCEPT !.parses = FALSE]>>,
                    <<LumberjackServer("tcp", "a", Opt(10), Absent)>>,
                    <<LumberjackServer("tcp", "a", Unparseable, Absent)>>,
                    <<LumberjackServer("tcp", "a", Absent, Unparseable)>>}}
    \cup {[BaseConfig EXCEPT !.batchsize = v] : v \in {Opt(3), Unparseable}}
    \cup {[BaseConfig EXCEPT !.batchtimeout = v] :
             v \in {Opt(-Second), Opt(0), Opt(minimalBatchTimeout - 1),
                    Opt(minimalBatchTimeout), Opt(Second), Opt(Minute),
                    Opt(Minute + 1), Unparseable}}
    \cup {[BaseConfig EXCEPT !.batchdebug = v] :
             v \in {Opt(TRUE), Opt(FALSE), Unparseable}}
    \cup {[BaseConfig EXCEPT !.reconnectwait = v] : v \in {Opt(Second), Unparseable}}
    \cup {[BaseConfig EXCEPT !.queuestatusinterval = v] :
             v \in {Opt(Second), Unparseable}}
    \cup {[BaseConfig EXCEPT !.queuesize = v] : v \in {Opt(100), Unparseable}}

GoflowNewConfigs ==
    [listen : {Absent, Opt(<<Url("nfl", Opt(2055))>>),
               Opt(<<Url("flow", Opt(2055))>>),
               Opt(<<Url("netflow", Absent)>>)},
     workers : {Absent, Opt(0), Opt(4), Unparseable}]

ResolveIPsNewConfigs == [queuelength : {Absent, Opt(10)}]

InitNew == InitPipeline(<<>>, <<>>)

NextNew ==
    \/ \E config \in LumberjackNewConfigs : BuildLumberjack(config)
    \/ \E config \in ResolveIPsNewConfigs : BuildResolveIPs(config)
    \/ \E config \in GoflowNewConfigs : BuildGoflow(config)
    \/ BuildProtomap
    \/ \E macseparator \in {"", "dash"} : BuildAddrStrings(macseparator)

SpecNew == InitNew /\ [][NextNew]_vars

\* protomap alone, fed records of protocol numbers inside the table, at its
\* end and beyond it
ProtoSamples == {6, 68, 222, largestIanaProtoNameIndex - 1,
                 largestIanaProtoNameIndex, largestIanaProtoNameIndex + 1}

ProtoStreams ==
    UNION {[1..n -> ProtoSamples] : n \in 0..NRec}

InitProto ==
    \E protos \in ProtoStreams :
        InitPipeline(<<ProtomapNew>>,
                     [i \in DOMAIN protos |-> [InputRecord(i) EXCEPT !.Proto = protos[i]]])

NextProto == MainNext \/ ProtomapNext

SpecProto == InitProto /\ [][NextProto]_vars

\* one ReceiverCallback, the tasks that call Dropped and its timers
InitDropped == InitPipeline(<<>>, <<>>)

DroppedNext ==
    \E c \in Callers :
        DroppedLoad(c) \/ DroppedStore(c) \/ DroppedCheck(c) \/ DroppedArm(c)

TimerFuncNext == \E t \in pending : TimerFunc(t)

NextDropped == DroppedNext \/ TimerFuncNext

SpecDropped == InitDropped /\ [][NextDropped]_vars

\* the ECS mapping applied to flows that differ in what the mapping reads
EcsFlow(SrcAddr, SourceIP, SrcMac, SourceMAC, Proto) ==
    [id |-> 1, Proto |-> Proto,
     SrcAddr |-> SrcAddr, DstAddr |-> SrcAddr,
     SourceIP |-> SourceIP, DestinationIP |-> SourceIP,
     SrcMac |-> SrcMac, DstMac |-> SrcMac,
     SourceMAC |-> SourceMAC, DestinationMAC |-> SourceMAC,
     TimeFlowStartMs |-> 1000, TimeFlowEndMs |-> 2000,
     TimeFlowStartNs |-> 1000000000, TimeFlowEndNs |-> 2000000000,
     Bytes |-> 1500, Packets |-> 1, SrcPort |-> 443, DstPort |-> 50000,
     SrcAs |-> 553, DstAs |-> 0, IcmpType |-> 8, IcmpCode |-> 0,
     Etype |-> 2048]

EcsFlows ==
    {EcsFlow(SrcAddr, SourceIP, SrcMac, SourceMAC, 6) :
        SrcAddr \in {NilAddr, SampleAddr}, SourceIP \in {"", "10.0.0.1"},
        SrcMac \in {0, SampleMac}, SourceMAC \in {"", "cd:ab:00:00:00:00"}}
    \cup {EcsFlow(SampleAddr, "", SampleMac, "", Proto) :
             Proto \in {1, 222, largestIanaProtoNameIndex}}

InitECS == InitPipeline(<<>>, <<>>)

NextECS ==
    \/ Tick
    \/ \E w \in 1..2, flow \in EcsFlows : Convert(w, flow)

SpecECS == InitECS /\ [][NextECS]_vars

\* pipelines of filter segments, fed records that match and records that do
\* not
FilterPipelines ==
    {<<FlowFilterNew(4)>>, <<ElephantNew>>, <<FlowFilterNew(4), ElephantNew>>}

\* protocol and bytes of the records fed
FilterSamples == {<<4, 10>>, <<5, 9>>, <<4, 100>>, <<5, 100>>}

FilterRecord(i, sample) ==
    [id |-> i, Proto |-> sample[1], Bytes |-> sample[2]]

InitFilter ==
    \E c \in FilterPipelines, n \in 0..NRec :
        \E samples \in [1..n -> FilterSamples] :
            InitPipeline(c, [i \in 1..n |-> FilterRecord(i, samples[i])])

FilterNext == \E i \in Segs : FilterRun(i) \/ FilterReturn(i)

NextFilter == MainNext \/ FilterNext

SpecFilter == InitFilter /\ [][NextFilter]_vars

\* main() from its first statement: the configurations are a pipeline of
\* protomap, one of protomap and addrstrings, one that names a segment the
\* registry does not hold and one with a Lumberjack server URL of an
\* unknown scheme
MainConfigs ==
    {<<ProtomapNew>>, <<ProtomapNew, AddrStringsNew("")>>,
     <<ProtomapNew, UnknownSegment>>,
     <<ProtomapNew,
       LumberjackNew([BaseConfig EXCEPT
                         !.servers = <<LumberjackServer("udp", "a", Absent, Absent)>>])>>}

InitMain == \E c \in MainConfigs, n \in 0..NRec : InitProcess(c, Stream(n), "main")

StartupNext ==
    \/ \E ok \in BOOLEAN : PluginOpen(ok)
    \/ \E ok \in BOOLEAN : ReadFile(ok)
    \/ NewFromConfig

NextMain == StartupNext \/ MainNext \/ TransformerNext

SpecMain == InitMain /\ [][NextMain]_vars

-----------------------------------------------------------------------------
(* Properties *)

\* the records segment i has sent on its out so far: those the reader of out
\* has taken, then the one that is parked in the send
OutSeq(i) ==
    (IF i = K THEN seen ELSE rcvd[i + 1])
        \o (IF slot[i] # NoMsg THEN <<slot[i]>> ELSE <<>>)

\* the ids of the records of a sequence
Ids(recs) == [j \in DOMAIN recs |-> recs[j].id]

IsPrefix(s, t) == Len(s) <= Len(t) /\ s = SubSeq(t, 1, Len(s))

Returned(i) == pc[i] = "done"

WorkerFinished(w) == wpc[w] = "done"

\* the batches worker w has handed to a send call that hold record id
BatchesWith(w, id) ==
    {j \in DOMAIN sendlog[w] : \E l \in DOMAIN sendlog[w][j].ids : sendlog[w][j].ids[l] = id}

\* C1: the closure of the ingress moves strictly downstream (a segment's out
\* is closed only when its in is), and the pipeline's Close returns only when
\* the Run of every segment has returned.
C1_ShutdownWave ==
    /\ \A i \in Segs : closes[i] > 0 => closes[i - 1] > 0
    /\ mainpc = "returned" => \A i \in Segs : Returned(i)

\* C2: in a pipeline of one protomap, addrstrings, resolveips or goflow
\* segment whose reader keeps receiving, once in is closed Run returns with
\* out closed exactly once, unless a receiver that cannot be started ends the
\* process.
C2_RunReturnsOutClosedOnce ==
    (mainpc # "new" /\ closes[0] > 0)
        ~> ((pc[1] = "done" /\ closes[1] = 1) \/ proc = ReceiverFatal)

\* C3: every segment signals the shared barrier exactly once, when its Run
\* returns: once the pipeline is started the counter is never negative, it
\* counts the Runs that have not returned, and it is zero only when every Run
\* and every Lumberjack worker has finished.
C3_BarrierCountsRuns ==
    mainpc # "new" =>
        /\ wg >= 0
        /\ wg = Cardinality({i \in Segs : ~Returned(i)})
        /\ (wg = 0 => \A w \in Workers : WorkerFinished(w))

\* C4: the records a resolveips segment has sent on out are, in order, the
\* records it has received, and none of the received is missing when out is
\* closed.
C4_AllSentBeforeClose ==
    \A i \in Segs : IsResolveIPs(conf[i]) =>
        /\ IsPrefix(Ids(OutSeq(i)), Ids(rcvd[i]))
        /\ (closes[i] > 0 => Ids(OutSeq(i)) = Ids(rcvd[i]))

\* C5: the records the Lumberjack segment has sent on out are, unchanged and
\* in order, the records it has received on in, without the one record it may
\* hold at the moment; none is missing when out is closed; whether a server
\* is reachable plays no role.
C5_ForwardsEveryRecordOnce ==
    \A i \in Segs : IsLumberjack(conf[i]) =>
        /\ IsPrefix(OutSeq(i), rcvd[i])
        /\ Len(rcvd[i]) - Len(OutSeq(i)) <= 1
        /\ (closes[i] > 0 => OutSeq(i) = rcvd[i])

\* C5 witness: every record of the stream was received and reached the reader
\* of out, out is closed, and no server was reachable when a batch was sent
C5_Witness ==
    /\ \E i \in Segs : IsLumberjack(conf[i]) /\ closes[i] > 0
    /\ Len(seen) = NRec /\ seen = fed
    /\ \A s \in DOMAIN serverUp : ~serverUp[s]
    /\ \A w \in Workers : delivered[w] = <<>> /\ sendlog[w] # <<>>

\* C6: the Lumberjack segment closes out only after in was observed closed,
\* the internal queue is drained and every worker has made its final send.
C6_CloseAfterFlush ==
    \A i \in Segs : (IsLumberjack(conf[i]) /\ closes[i] > 0) =>
        /\ closes[i - 1] > 0
        /\ queue = <<>>
        /\ \A w \in Workers : wpc[w] \in {"wgdone", "return", "done"}

\* what one segment may make of record x
SegmentOutputs(c, x) ==
    CASE c.kind = "protomap" -> {ProtomapBody(x)}
      [] c.kind = "addrstrings" -> {AddrStringsBody(x, c.Separator)}
      [] c.kind = "resolveips" ->
            {ResolveHostNames(x, answered) : answered \in SUBSET LookupFields}
      [] c.kind = "lumberjack" -> {LumberjackForward(x)}

\* what the first k segments of the pipeline may make of record x
RECURSIVE PipelineOutputs(_, _)
PipelineOutputs(k, x) ==
    IF k = 0 THEN {x}
    ELSE UNION {SegmentOutputs(conf[k], y) : y \in PipelineOutputs(k - 1, x)}

\* C7: in a pipeline of protomap, addrstrings, resolveips and lumberjack
\* segments the records sent on the last out are, in input order, the
\* composed transformations of the records fed, and all of them once the
\* last out is closed.
C7_ComposedInOrder ==
    /\ Len(OutSeq(K)) <= Len(fed)
    /\ \A j \in DOMAIN OutSeq(K) : OutSeq(K)[j] \in PipelineOutputs(K, fed[j])
    /\ closes[K] > 0 => Len(OutSeq(K)) = Len(fed)

\* the records the reader of segment i's out has accepted
Accepted(i) == IF i = K THEN seen ELSE rcvd[i + 1]

IsTransformer(c) == c.kind \in {"protomap", "addrstrings"}

\* C8: a protomap or addrstrings segment holds at most one record (received
\* and not yet accepted downstream), so a pipeline of k such segments has
\* taken at most k records more than the reader of the last out has accepted.
C8_HoldsAtMostOne ==
    /\ \A i \in Segs : IsTransformer(conf[i]) =>
          Len(rcvd[i]) - Len(Accepted(i)) <= 1
    /\ (\A i \in Segs : IsTransformer(conf[i])) =>
          Len(rcvd[1]) - Len(seen) <= K

\* C8 witness: the reader has accepted nothing, every segment of a pipeline of
\* two or more holds one record, and the upstream sender is parked
C8_Witness ==
    /\ K >= 2
    /\ seen = <<>>
    /\ \A i \in Segs : IsTransformer(conf[i]) /\ slot[i] # NoMsg
    /\ slot[0] # NoMsg

\* the records workers have taken from the queue
Dequeued == {deq[w][j] : <<w, j>> \in {<<w, j>> \in Workers \X (1..(QueueRecs + 1)) : j \in DOMAIN deq[w]}}

\* C9: the Lumberjack queue never holds more than its capacity, which is the
\* configured queuesize, or 65536 when that is absent or below 64; while the
\* queue is full Run holds one received record and receives no other; every
\* received record is that one or was enqueued, and every enqueued record is
\* in the queue or was taken by a worker.
C9_QueueBounded ==
    \A i \in Segs : IsLumberjack(conf[i]) =>
        LET qs == conf[i].config.queuesize
            small == IF qs = Absent THEN TRUE ELSE qs[1] < 64
        IN  /\ conf[i].QueueCap = IF small THEN 65536 ELSE qs[1]
            /\ Len(queue) <= conf[i].QueueCap
            /\ Ids(rcvd[i]) = enq \o (IF hand[i] # NoMsg THEN <<hand[i].id>> ELSE <<>>)
            /\ Len(enq) = Len(queue) + Cardinality(Dequeued)
            /\ Ids(queue) = SubSeq(enq, Len(enq) - Len(queue) + 1, Len(enq))

\* C9 witness: the queue is full at its configured capacity, Run holds the
\* record it cannot enqueue, and the next record is parked in the send on in
C9_Witness ==
    \E i \in Segs :
        /\ IsLumberjack(conf[i]) /\ conf[i].config.queuesize = Opt(QueueFloor)
        /\ Len(queue) = conf[i].QueueCap
        /\ pc[i] = "enqueue" /\ hand[i] # NoMsg
        /\ slot[i - 1] # NoMsg

\* C10: no record is enqueued twice, none is dequeued twice or by two
\* workers, none is in two batches handed to a send call, and once the
\* pipeline has shut down every enqueued record is in exactly one such batch.
C10_ExactlyOneBatch ==
    /\ \A j, l \in DOMAIN enq : enq[j] = enq[l] => j = l
    /\ \A w, v \in Workers : \A j \in DOMAIN deq[w], l \in DOMAIN deq[v] :
          deq[w][j] = deq[v][l] => (w = v /\ j = l)
    /\ \A j \in DOMAIN enq :
          Cardinality({<<w, b>> \in Workers \X (1..(NRec + 1)) :
                          b \in BatchesWith(w, enq[j])}) <= 1
    /\ mainpc = "returned" =>
          \A j \in DOMAIN enq : \E w \in Workers : BatchesWith(w, enq[j]) # {}

\* C11: a Lumberjack worker that waits for events with records in its buffer
\* has its batch timer running (armed, or expired and not yet handled), so
\* that a partially filled buffer is flushed after batchtimeout.
C11_TimerArmedWhileBuffered ==
    \A w \in Workers :
        (wpc[w] = "select" /\ buf[w] # <<>>) => tm[w] \in {"armed", "fired"}

\* C12: a worker's buffer never holds more than batchsize records; when it
\* holds batchsize the timer is stopped and exactly these records are in a
\* retrying Send, after whose return the buffer is empty; no batch handed to
\* a send call holds more than batchsize records.
C12_BatchBounded ==
    /\ [](\A w \in Workers :
            /\ Len(buf[w]) <= conf[LJ].BatchSize
            /\ (wpc[w] = "select" /\ conf[LJ].BatchSize > 0) =>
                   Len(buf[w]) < conf[LJ].BatchSize
            /\ wpc[w] = "sendfull" =>
                   /\ Len(buf[w]) = conf[LJ].BatchSize
                   /\ tm[w] \in {"stopped", "expired"}
                   /\ sendlog[w][Len(sendlog[w])].fn = "Send"
                   /\ sendlog[w][Len(sendlog[w])].ids = DocIds(buf[w])
            /\ \A j \in DOMAIN sendlog[w] :
                   Len(sendlog[w][j].ids) <= conf[LJ].BatchSize)
    /\ [][\A w \in Workers :
            (wpc[w] = "sendfull" /\ wpc'[w] # "sendfull") => buf'[w] = <<>>]_vars

\* C12 witness: a worker is back at its select with an empty buffer after a
\* Send of a full batch of two records
C12_Witness ==
    \E w \in Workers :
        /\ wpc[w] = "select" /\ buf[w] = <<>>
        /\ conf[LJ].BatchSize = 2
        /\ \E j \in DOMAIN sendlog[w] :
              sendlog[w][j].fn = "Send" /\ Len(sendlog[w][j].ids) = 2

\* C13: when a worker takes the timer case with a non-empty buffer it hands
\* all buffered records to one retrying Send, and when that Send is left the
\* buffer is empty and the timer is armed again; with an empty buffer it sends
\* nothing and arms the timer again.
C13_TimerCase ==
    /\ [](\A w \in Workers :
            wpc[w] = "sendtimer" =>
                /\ buf[w] # <<>>
                /\ sendlog[w][Len(sendlog[w])].fn = "Send"
                /\ sendlog[w][Len(sendlog[w])].ids = DocIds(buf[w]))
    /\ [][\A w \in Workers :
            /\ (wpc[w] = "select" /\ wpc'[w] = "sendtimer") =>
                   /\ tm[w] = "fired"
                   /\ Len(sendlog'[w]) = Len(sendlog[w]) + 1
            /\ (wpc[w] = "sendtimer" /\ wpc'[w] # "sendtimer") =>
                   /\ wpc'[w] = "select"
                   /\ buf'[w] = <<>>
                   /\ sendlog'[w] = sendlog[w]
                   /\ timerSet'[w] /\ tm'[w] = "armed"
            /\ (wpc[w] = "select" /\ wpc'[w] = "select"
                  /\ tm[w] = "fired" /\ tm'[w] # "fired") =>
                   /\ buf[w] = <<>> /\ buf'[w] = <<>>
                   /\ sendlog'[w] = sendlog[w]
                   /\ timerSet'[w] /\ tm'[w] = "armed"]_vars

\* C13 witness: a worker is back at its select, buffer empty and timer armed,
\* after the timer case sent a partially filled batch
C13_Witness ==
    \E w \in Workers :
        /\ wpc[w] = "select" /\ buf[w] = <<>> /\ tm[w] = "armed"
        /\ \E j \in DOMAIN sendlog[w] :
              /\ sendlog[w][j].fn = "Send"
              /\ Len(sendlog[w][j].ids) \in 1 .. conf[LJ].BatchSize - 1

\* C14: the stop-and-drain before a full-batch send never blocks, whether
\* the timer has already expired or is still armed, and after the timer was
\* armed again timer.C holds no value of an earlier expiry; the worker's
\* timerSet flag tells whether the timer is armed or expired and unhandled.
C14_StopAndDrainSafe ==
    \A w \in Workers :
        /\ wpc[w] # "drain"
        /\ tm[w] # "stale"
        /\ wpc[w] = "select" => (timerSet[w] <=> tm[w] \in {"armed", "fired"})
        /\ InSend(w) => tm[w] \in {"stopped", "expired"}

\* C14 witness: a full batch is being sent after the stop-and-drain took
\* the expiry of the timer out of timer.C
C14_Witness ==
    \E w \in Workers : wpc[w] = "sendfull" /\ tm[w] = "expired"

\* C15: once the Lumberjack queue is closed every worker terminates and the
\* segment's Run returns, whatever the workers were doing and whether or not
\* a server is reachable.
C15_TerminatesOnceClosed ==
    queueClosed ~> ((\A w \in Workers : WorkerFinished(w)) /\ Returned(LJ))

\* the positions of the non-retrying sends in worker w's send log
FinalSends(w) == {j \in DOMAIN sendlog[w] : sendlog[w][j].fn = "SendNoRetry"}

\* C16: a worker calls SendNoRetry at most once, as its last send, only when
\* the queue is closed and empty, with exactly the records in its buffer, and
\* then only leaves (a worker that has left has called it exactly once); all
\* its other batches go to the retrying Send.
C16_FinalSendOnce ==
    \A w \in Workers :
        /\ Cardinality(FinalSends(w)) <= 1
        /\ \A j \in DOMAIN sendlog[w] : sendlog[w][j].fn \in {"Send", "SendNoRetry"}
        /\ FinalSends(w) # {} =>
               /\ FinalSends(w) = {Len(sendlog[w])}
               /\ queueClosed /\ queue = <<>>
               /\ sendlog[w][Len(sendlog[w])].ids = DocIds(buf[w])
        /\ FinalSends(w) # {} <=> wpc[w] \in {"wgdone", "return", "done"}

\* C16 witness: a worker has exited after a retrying Send of a full batch
\* and a final SendNoRetry of the one record left in its buffer
C16_Witness ==
    \E w \in Workers :
        /\ WorkerFinished(w)
        /\ Len(sendlog[w]) >= 2
        /\ sendlog[w][1].fn = "Send"
        /\ sendlog[w][Len(sendlog[w])].fn = "SendNoRetry"
        /\ Len(sendlog[w][Len(sendlog[w])].ids) = 1

\* the number of workers Run has to start for server h: its count option,
\* or 1 when that is absent or not positive
WorkersWanted(h) ==
    LET cnt == (CHOOSE j \in DOMAIN conf[LJ].config.servers :
                    conf[LJ].config.servers[j].host = h)
    IN  IF conf[LJ].config.servers[cnt].count = Absent THEN 1
        ELSE IF conf[LJ].config.servers[cnt].count[1] <= 0 THEN 1
        ELSE conf[LJ].config.servers[cnt].count[1]

\* C17: Run has one worker per unit of count for each server (one when count
\* is absent or not positive); the counter Run waits on for its workers is
\* never negative; Run has signalled completion only when every worker has
\* exited.
C17_WorkersCounted ==
    /\ \A h \in DOMAIN conf[LJ].Servers :
          Cardinality({w \in Workers : Server(w) = h}) = WorkersWanted(h)
    /\ writerWG >= 0
    /\ Returned(LJ) => \A w \in Workers : WorkerFinished(w)

\* the records of a sequence of batches, in order
RECURSIVE Concat(_)
Concat(batches) ==
    IF batches = <<>> THEN <<>> ELSE Head(batches) \o Concat(Tail(batches))

\* the sizes of the non-empty batches of a sequence of batches
BatchSizes(batches) ==
    LET full == SelectSeq(batches, LAMBDA b : b # <<>>)
    IN  [j \in DOMAIN full |-> Len(full[j])]

\* C18 (as stated): fed 7 records and closed, a worker with batchsize 3 has
\* handed the server the batches 3, 3, 1 when it has made its final send.
C18_ThreeBatches ==
    \A w \in Workers :
        (FinalSends(w) # {} /\ Len(fed) = 7) =>
            BatchSizes(delivered[w]) = <<3, 3, 1>>

\* C18 (amended): with a reachable server the documents handed to the server
\* are the records fed, in order, each once, in batches of at most batchsize
\* records; all of them have been handed over when the worker has made its
\* final send. The number and the sizes of the batches depend on the timing.
C18_AllDeliveredInOrder ==
    \A w \in Workers :
        /\ IsPrefix(Concat(delivered[w]), Ids(fed))
        /\ \A j \in DOMAIN delivered[w] : Len(delivered[w][j]) <= conf[LJ].BatchSize
        /\ FinalSends(w) # {} => Concat(delivered[w]) = Ids(fed)

\* C18 witness: all 7 documents were handed over, the timer having cut the
\* second batch short: batches of 3, 1 and 3
C18_Witness ==
    \E w \in Workers :
        /\ WorkerFinished(w)
        /\ Len(Concat(delivered[w])) = 7
        /\ BatchSizes(delivered[w]) = <<3, 1, 3>>

\* the records worker w has handed to its send calls, in order
Sent(w) == Concat([j \in DOMAIN sendlog[w] |-> sendlog[w][j].ids])

\* s can be obtained from t by leaving out elements
RECURSIVE IsSubSeq(_, _)
IsSubSeq(s, t) ==
    IF s = <<>> THEN TRUE
    ELSE IF t = <<>> THEN FALSE
    ELSE IF Head(s) = Head(t) THEN IsSubSeq(Tail(s), Tail(t))
    ELSE IsSubSeq(s, Tail(t))

\* C19: while no batch has been handed over and the queue is open, the
\* segment has received at most what the queue and the workers' buffers hold
\* plus the one record Run is blocked on; each worker hands the records it
\* dequeued to its send calls in the order it dequeued them, each once; what
\* the server has got from a worker is, in that order, a part of what the
\* worker dequeued, and while the queue is open it is all of it but the
\* records still in the worker's buffer.
C19_BacklogInOrder ==
    /\ ((\A w \in Workers : delivered[w] = <<>>) /\ ~queueClosed) =>
           Len(rcvd[LJ]) <= conf[LJ].QueueCap
                              + Cardinality(Workers) * conf[LJ].BatchSize + 1
    /\ Len(queue) <= conf[LJ].QueueCap
    /\ \A w \in Workers :
          /\ Sent(w) \o (IF InSend(w) \/ FinalSends(w) # {} THEN <<>> ELSE DocIds(buf[w]))
                = deq[w]
          /\ IsSubSeq(Concat(delivered[w]), deq[w])
          /\ ~queueClosed => Concat(delivered[w]) \o DocIds(buf[w]) = deq[w]

\* C19 witness: the queue of 64 was full with Run blocked while the server
\* was unreachable, and the worker has since handed the server at least 64
\* records
C19_Witness ==
    \E w \in Workers :
        /\ conf[LJ].config.queuesize = Opt(QueueFloor)
        /\ Len(Concat(delivered[w])) >= QueueFloor

\* C20: a Lumberjack worker does not read a record (to build its ECS
\* document) that the segment has already passed on: the record a worker
\* takes from the queue has not been received from the segment's out.
C20_NoAccessAfterForward ==
    [][\A w \in Workers :
          deq'[w] # deq[w] =>
              \A j \in DOMAIN Accepted(LJ) : Accepted(LJ)[j].id # Head(queue).id]_vars

\* C21: the records a resolveips segment has sent on out are, in the order
\* received, the first of the records it has received, in whatever order
\* the lookups of the records complete.
C21_ResolveKeepsOrder ==
    \A i \in Segs : IsResolveIPs(conf[i]) =>
        /\ IsPrefix(Ids(OutSeq(i)), Ids(rcvd[i]))
        /\ \A j, k \in DOMAIN resQueue : j < k =>
              \E m, n \in DOMAIN rcvd[i] :
                  m < n /\ rcvd[i][m].id = resQueue[j] /\ rcvd[i][n].id = resQueue[k]

\* C21 witness: three records were received; the first was sent on out, the
\* lookups of the third are complete and those of the second are not
C21_Witness ==
    \E i \in Segs :
        /\ IsResolveIPs(conf[i])
        /\ Len(rcvd[i]) = 3
        /\ Ids(OutSeq(i)) = <<rcvd[i][1].id>>
        /\ future[rcvd[i][2].id].st = "resolving"
        /\ future[rcvd[i][3].id].st = "ready"

\* the records of a sequence that came from the pipeline's input stream
FromIn(recs) == SelectSeq(recs, LAMBDA m : m.id \in 1..Len(fed \o feed))

\* the records of a sequence that a listener decoded
FromCollector(recs) == SelectSeq(recs, LAMBDA m : m.id > 100)

\* C22: of the records a goflow segment has sent on out, those that came
\* from in are exactly the records it has received on in, unchanged and in
\* the order received, and those the collector decoded are the flows Run took
\* from the collector, in that order; Run has returned only with in closed
\* and every record of in received.
C22_GoflowForwardsIn ==
    \A i \in Segs : IsGoflow(conf[i]) =>
        /\ FromIn(OutSeq(i)) = rcvd[i]
        /\ FromCollector(OutSeq(i)) = collected
        /\ Returned(i) => (closes[i - 1] > 0 /\ slot[i - 1] = NoMsg
                              /\ Ids(rcvd[i]) = Ids(fed))

\* C22 witness: a decoded flow went out between two records of in
C22_Witness ==
    \E i \in Segs :
        /\ IsGoflow(conf[i])
        /\ Len(OutSeq(i)) >= 3
        /\ \E j \in 2..(Len(OutSeq(i)) - 1) :
              /\ OutSeq(i)[j - 1].id = 1
              /\ OutSeq(i)[j].id > 100
              /\ OutSeq(i)[j + 1].id = 2

-----------------------------------------------------------------------------
(* New and the registered prototypes *)

\* C23: New(config) of a registered segment returns a fresh instance that is
\* not the registered prototype, the prototype stays as it was registered,
\* and two calls of New return instances that share nothing.  (Violated:
\* Lumberjack.New writes the options to the registered prototype and returns
\* it, so two lumberjack entries are one object.)
C23_NewReturnsFreshInstance ==
    /\ \A a \in DOMAIN Registry : heap[a] = Prototypes[a]
    /\ \A j \in DOMAIN built :
          built[j].result = "instance" => built[j].segment \notin DOMAIN Registry
    /\ \A j, k \in DOMAIN built :
          (j # k /\ built[j].result = "instance" /\ built[k].result = "instance")
              => built[j].segment # built[k].segment

\* the configuration errors of a call of New: for lumberjack an unknown
\* scheme, an invalid URL, a compression level outside 0..9, a number, a
\* duration or a boolean without value; for goflow an unknown scheme, a
\* port that is no number, a workers value that is no number
InvalidOption(call) ==
    CASE call.name = "lumberjack" ->
           \/ \E j \in DOMAIN call.config.servers :
                 LET server == call.config.servers[j]
                 IN  \/ server.scheme \notin {"tcp", "tls", "tlsnoverify"}
                     \/ ~server.parses
                     \/ server.compression \notin {Absent} \cup {Opt(l) : l \in 0..9}
                     \/ server.count = Unparseable
           \/ call.config.compression \notin {Absent} \cup {Opt(l) : l \in 0..9}
           \/ \E option \in {call.config.batchsize, call.config.batchtimeout,
                             call.config.batchdebug, call.config.reconnectwait,
                             call.config.queuestatusinterval,
                             call.config.queuesize} : option = Unparseable
      [] call.name = "goflow" ->
           \/ /\ call.config.listen # Absent
              /\ \E j \in DOMAIN call.config.listen[1] :
                    \/ call.config.listen[1][j].Scheme \notin {"netflow", "sflow", "nfl"}
                    \/ call.config.listen[1][j].Port = Absent
           \/ call.config.workers = Unparseable
      [] OTHER -> FALSE

\* C24: every configuration error of lumberjack and goflow makes New return
\* nil, and New never ends the process.  (Violated: Lumberjack.New ends the
\* process with log.Fatal() on each of its configuration errors, and
\* Goflow.New returns an instance with one worker for a workers value that
\* is no number.)
C24_ConfigErrorsReturnNil ==
    /\ proc # ConfigFatal
    /\ \A j \in DOMAIN built : InvalidOption(built[j]) => built[j].result = "nil"

\* C27: the BatchTimeout of the instance Lumberjack.New returns lies in
\* [50ms, 60s]: 5s when the option is absent, below 50ms or above 60s, the
\* configured value otherwise.
C27_BatchTimeoutInRange ==
    (built # <<>> /\ built[Len(built)].name = "lumberjack"
                  /\ built[Len(built)].result = "instance") =>
        LET option == built[Len(built)].config.batchtimeout
            BatchTimeout == heap[built[Len(built)].segment].BatchTimeout
        IN  /\ BatchTimeout >= 50 /\ BatchTimeout <= 60000
            /\ BatchTimeout =
                  IF option = Absent THEN 5000
                  ELSE IF option[1] < 50 \/ option[1] > 60000 THEN 5000
                  ELSE option[1]

C27_Witness ==
    /\ Len(built) = 2
    /\ \A j \in 1..2 : built[j].name = "lumberjack" /\ built[j].result = "instance"
    /\ built[1].config.batchtimeout = Opt(60001)
    /\ built[2].config.batchtimeout = Opt(50)
    /\ heap[built[2].segment].BatchTimeout = 50

-----------------------------------------------------------------------------
(* protomap and the IANA table *)

\* C25: protomap forwards every record with ProtoName set to the table's
\* entry of its protocol number n when n <= 255 and the entry exists, and to
\* "UNKNOWN" otherwise, for every n > 255, 256 included, without failure.
\* (Violated: for n = 256 the lookup indexes the 256 entries of the table at
\* 256 and the process panics.)
C25_ProtoNameOrUnknown ==
    \A i \in Segs : conf[i].kind = "protomap" =>
        /\ proc # "panicked"
        /\ Ids(OutSeq(i)) = Ids(rcvd[i])
        /\ \A k \in DOMAIN OutSeq(i) :
              LET n == OutSeq(i)[k].Proto
              IN  OutSeq(i)[k].ProtoName =
                     IF n <= 255 /\ IanaProtocolNumberNames[n] # ""
                     THEN IanaProtocolNumberNames[n]
                     ELSE "UNKNOWN"

-----------------------------------------------------------------------------
(* goflow: dropped packets *)

\* C26: whatever the tasks that call Dropped do, at most one log timer is
\* pending and every call is counted: the counter is the number of calls
\* whose increment is over.  (Violated: two calls that overlap store the
\* same value, and both find CurrentTimer nil and start a timer.)
C26_CountedOnceOneTimer ==
    /\ Cardinality(pending) <= 1
    /\ DroppedPackets = dropped - Cardinality({c \in Callers : dpc[c] = "store"})

-----------------------------------------------------------------------------
(* The ECS mapping *)

\* what the raw field of a MAC gives
MACFromRaw(Mac) == IF Mac # 0 THEN MacString(Mac, "dash") ELSE ""

\* what the raw field of an address gives
IPFromRaw(Addr) == IF Addr # NilAddr THEN AddrObjString(Addr) ELSE ""

\* C28: in the document of a flow, source and destination IP, address and
\* MAC are the flow's string field whenever the flow has one, whether or not
\* the raw field is set, and come from the raw field only when it has none.
\* (Violated: the MAC of the document is empty when the raw MAC is 0, also
\* when the flow has a MAC string.)
C28_PrefersEnrichedStrings ==
    \A k \in DOMAIN converted :
        LET flow == converted[k].flow
            doc == converted[k].doc
        IN  /\ doc.Source.IP = IF flow.SourceIP # "" THEN flow.SourceIP
                               ELSE IPFromRaw(flow.SrcAddr)
            /\ doc.Source.Address = doc.Source.IP
            /\ doc.Destination.IP = IF flow.DestinationIP # "" THEN flow.DestinationIP
                                    ELSE IPFromRaw(flow.DstAddr)
            /\ doc.Destination.Address = doc.Destination.IP
            /\ doc.Source.MAC = IF flow.SourceMAC # "" THEN flow.SourceMAC
                                ELSE MACFromRaw(flow.SrcMac)
            /\ doc.Destination.MAC = IF flow.DestinationMAC # "" THEN flow.DestinationMAC
                                     ELSE MACFromRaw(flow.DstMac)

-----------------------------------------------------------------------------
(* Filter segments *)

\* the records of recs the predicate of segment c admits, in order
RECURSIVE Admitted(_, _)
Admitted(c, recs) ==
    IF recs = <<>> THEN <<>>
    ELSE LET front == SubSeq(recs, 1, Len(recs) - 1)
             last == recs[Len(recs)]
         IN  IF Matches(c, last, front)
             THEN Append(Admitted(c, front), last)
             ELSE Admitted(c, front)

-----------------------------------------------------------------------------
(* main(): exit codes *)

\* whether main stopped before the pipeline was started
StartupFailed ==
    mainpc \in {"plugin failed", "config unreadable", "build failed"}

\* C31: when the process has ended, its exit code is non-zero after every
\* startup failure and 0 only after a normal shutdown, and after a startup
\* failure no segment was started.  (Violated: main returns, exit code 0,
\* when a plugin cannot be loaded or the configuration file cannot be read.)
C31_ExitCodes ==
    /\ StartupFailed => (ExitCode # 0 /\ \A i \in Segs : pc[i] = "idle")
    /\ (~Running /\ ExitCode = 0) => mainpc = "returned"

-----------------------------------------------------------------------------
(* lumberjack: the timer after a full batch *)

\* whether the last batch worker w handed to client.Send was a full one
FlushedFull(w) ==
    /\ sendlog[w] # <<>>
    /\ sendlog[w][Len(sendlog[w])].fn = "Send"
    /\ Len(sendlog[w][Len(sendlog[w])].ids) = conf[LJ].BatchSize

\* C32: a worker that has flushed a full batch and waits with an empty
\* buffer for the next record has its timer stopped, not armed.  (Violated:
\* the worker resets the timer right after the full batch was sent.)
C32_TimerStoppedAfterFullBatch ==
    \A w \in Workers :
        (wpc[w] = "select" /\ FlushedFull(w) /\ buf[w] = <<>>)
            => tm[w] \notin {"armed", "fired", "stale"}

-----------------------------------------------------------------------------
(* lumberjack: the buffer index *)

\* C33: whenever a worker is about to append a dequeued record, the batch
\* size New has set is at least 1 and the index idx it writes at is inside
\* the local buffer, 0 <= idx < batchsize.  (Violated: New accepts
\* batchsize 0, the buffer then has length 0 and the first append writes
\* flowInterface[0].)
C33_IndexInBuffer ==
    \A w \in Workers :
        (wpc[w] = "select" /\ queue # <<>>) =>
            /\ conf[LJ].BatchSize >= 1
            /\ Len(buf[w]) < conf[LJ].BatchSize

-----------------------------------------------------------------------------
(* lumberjack: the batch-debug hook *)

\* whether worker w is at a full-batch, timer or final-batch event, each of
\* which calls segment.BatchDebugPrintf
AtDebugEvent(w) ==
    \/ wpc[w] = "sendfull"
    \/ wpc[w] = "select" /\ tm[w] \in {"fired", "stale"}
    \/ wpc[w] = "select" /\ QueueClosedAndDrained

\* C34: whenever a worker is at an event that calls the batch-debug hook,
\* the hook New has set is a function that can be called.  (Violated: with
\* the batchdebug option absent New leaves the field nil.)
C34_DebugHookCallable ==
    \A w \in Workers : AtDebugEvent(w) => conf[LJ].BatchDebugPrintf # "nil"

-----------------------------------------------------------------------------
(* goflow: the closed collector channel *)

\* C35: goflow's Run never sends a nil record on out.  (Violated: in the
\* branch for the closed collector channel Run sets its reference to nil
\* and then executes segment.Out <- msg with the nil msg of the failed
\* receive.)
C35_NoNilRecordOnOut ==
    \A i \in Segs : IsGoflow(conf[i]) => slot[i] # NilFlow

-----------------------------------------------------------------------------
(* goflow: the listen schemes of New and of the listeners *)

\* C36: every listener that Run starts for an instance New returned has a
\* scheme its switch knows, and the process is never ended by the switch's
\* default branch.  (Violated: New accepts "nfl", the listener's switch
\* knows "netflow", "sflow" and "flow".)
C36_AcceptedSchemesStart ==
    /\ \A j \in DOMAIN lst :
          lst[j] = "starting" => conf[Goflow].Listen[j].Scheme \in PipeSchemes
    /\ proc # SchemeFatal

-----------------------------------------------------------------------------
(* resolveips: the forwarding task after Run has returned *)

\* whether the task that forwards results waits in its range over the
\* ResolveQueue with nothing queued
ForwarderIdle == fpc = "range" /\ resQueue = <<>>

\* C37: once a resolveips segment's Run has returned, the task it spawned
\* to forward results is not left waiting for a future on the empty
\* ResolveQueue, whose only sender has returned.  (Violated: Run closes out
\* and returns, the ResolveQueue is never closed, the task waits for ever.)
C37_ForwarderNotLeftWaiting ==
    \A i \in Segs : (IsResolveIPs(conf[i]) /\ Returned(i)) => ~ForwarderIdle

-----------------------------------------------------------------------------
(* sends on closed channels *)

\* whether the forwarding task of resolveips segment i executes
\* segment.Out <- flow.WaitForResult() with the result at hand
ForwarderSending(i) ==
    /\ IsResolveIPs(conf[i]) /\ fpc = "wait"
    /\ future[fcur].st = "ready"

\* whether a transport of goflow executes d.out <- &msg.EnrichedFlow
TransportSending ==
    /\ \E j \in DOMAIN lst : lst[j] = "listening"
    /\ gsent < MaxCollected /\ gin = NoMsg

\* C38: no task executes a send on a channel that has been closed: not the
\* forwarding task of resolveips on out, not a transport of goflow on the
\* collector channel.  (Violated: Run of resolveips closes out while the
\* forwarding task still has futures to send.)
C38_NoSendOnClosed ==
    /\ \A i \in Segs : ForwarderSending(i) => closes[i] = 0
    /\ TransportSending => ginClosed = 0

-----------------------------------------------------------------------------
(* lumberjack: empty batches *)

\* C39 as stated: no batch a worker has handed to a send call is empty.
\* (Violated by the final send of a worker whose buffer is empty when it
\* sees the queue closed.)
C39_NoEmptyBatch ==
    \A w \in Workers : \A j \in DOMAIN sendlog[w] : sendlog[w][j].ids # <<>>

\* C39, amended: no batch a worker has handed to the retrying Send is empty
\* (the timer case sends only a non-empty buffer); the one batch that can be
\* empty is that of the final SendNoRetry, which is made with whatever the
\* buffer holds.
C39_OnlyFinalSendEmpty ==
    \A w \in Workers : \A j \in DOMAIN sendlog[w] :
        /\ sendlog[w][j].fn = "Send" => sendlog[w][j].ids # <<>>
        /\ sendlog[w][j].ids = <<>> =>
               /\ sendlog[w][j].fn = "SendNoRetry"
               /\ j = Len(sendlog[w]) /\ buf[w] = <<>>

\* C39 witness: a worker that dequeued two records with batchsize 2 sent
\* them as a full batch, took the timer case with its buffer empty without
\* sending, and made its final send with an empty batch
C39_Witness ==
    \E w \in Workers :
        /\ conf[LJ].BatchSize = 2 /\ Len(deq[w]) = 2
        /\ wpc[w] = "wgdone" /\ tm[w] = "armed"
        /\ Len(sendlog[w]) = 2
        /\ sendlog[w][1].fn = "Send" /\ Len(sendlog[w][1].ids) = 2
        /\ sendlog[w][2].fn = "SendNoRetry" /\ sendlog[w][2].ids = <<>>

-----------------------------------------------------------------------------
(* lumberjack: the queue and out in lock step *)

\* C40: the records the reader of out has received from the Lumberjack
\* segment are, in order, the first of the records enqueued for export, and
\* at most one enqueued record has not been received yet; while that record
\* is parked in the send on out nothing is received from in and nothing is
\* enqueued, whatever room the queue has.
C40_EnqueueAheadByOne ==
    /\ [](\A i \in Segs : IsLumberjack(conf[i]) =>
            /\ IsPrefix(Ids(Accepted(i)), enq)
            /\ Ids(OutSeq(i)) = enq
            /\ Len(enq) - Len(Accepted(i)) <= 1)
    /\ [][\A i \in Segs : (IsLumberjack(conf[i]) /\ slot[i] # NoMsg) =>
            /\ enq' = enq
            /\ rcvd'[i] = rcvd[i]]_vars

\* C40 witness: the second record is enqueued and parked in the send on out,
\* the reader of out has taken only the first, the queue has room and the
\* third record waits on in
C40_Witness ==
    \E i \in Segs :
        /\ IsLumberjack(conf[i])
        /\ Len(enq) = 2 /\ Len(Accepted(i)) = 1
        /\ slot[i] # NoMsg /\ slot[i - 1] # NoMsg
        /\ Len(queue) < conf[i].QueueCap

====
